---- MODULE Spec2Model ----
(***************************************************************************)
(* news-tui: the content scoring and generation engine.                    *)
(*                                                                         *)
(* Part 1: generate/markov.py  (tokenizer, build_chain, generate,          *)
(*         chain_entropy)                                                  *)
(* Part 2: track/db.py read history and track/drift.py drift detection     *)
(* Part 3: generate/summarize.py  (extractive_summary, smart_tldr) with    *)
(*         generate_tldr and merge_chains of generate/markov.py            *)
(* Part 4: analyze/quality.py  (compute_signal_score)                      *)
(* Part 5: analyze/topics.py  (extract_topics, topic_overlap)              *)
(* Part 6: track/db.py articles table and get_articles_for_display of      *)
(*         pipeline.py                                                     *)
(* Part 7: ingest/sources.py  (load_sources, add_source, remove_source)    *)
(*                                                                         *)
(* Text is a sequence of one-character strings.  A token is a sequence of  *)
(* characters too.  A Markov chain is a Python dict, which keeps insertion *)
(* order: it is modelled as a sequence of [key, words] records.            *)
(***************************************************************************)
EXTENDS Integers, Sequences, FiniteSets, TLC

(***************************************************************************)
(* Bounds of the model.                                                    *)
(***************************************************************************)
MaxChunks == 3      \* whitespace-separated chunks in a text
MaxWords == 3       \* largest word budget max_words
RngPeriod == 2      \* number of states of the modelled random source

\* Optional values: None is the empty sequence, Some(x) has the one element x
None == <<>>
Some(x) == <<x>>
NotBuilt == [kind |-> "none", chain |-> <<>>]

(***************************************************************************)
(* Characters.                                                             *)
(***************************************************************************)
\* \w and the apostrophe: the first alternative of the token pattern
IsWordChar(c) ==
    c \in {"a", "b", "d", "e", "f", "n", "s", "t", "u",
           "A", "B", "D", "E", "F", "N", "S", "T", "U", "'"}

\* the second alternative of the token pattern
IsPunctChar(c) == c \in {".", ",", "!", "?", ";", ":", "\"", "-", "(", ")"}

\* str.lower() on one character
LowerChar(c) ==
    CASE c = "A" -> "a" [] c = "B" -> "b" [] c = "D" -> "d" [] c = "F" -> "f"
      [] c = "S" -> "s" [] c = "T" -> "t" [] c = "U" -> "u" [] c = "E" -> "e"
      [] c = "N" -> "n" [] OTHER -> c

\* str.upper() on one character
UpperChar(c) ==
    CASE c = "a" -> "A" [] c = "b" -> "B" [] c = "d" -> "D" [] c = "f" -> "F"
      [] c = "s" -> "S" [] c = "t" -> "T" [] c = "u" -> "U" [] c = "e" -> "E"
      [] c = "n" -> "N" [] OTHER -> c

\* str.lower()
Lower(s) == [i \in 1..Len(s) |-> LowerChar(s[i])]

\* str.capitalize(): first character upper-cased, the rest lower-cased
Capitalize(s) ==
    [i \in 1..Len(s) |-> IF i = 1 THEN UpperChar(s[i]) ELSE LowerChar(s[i])]

(***************************************************************************)
(* _tokenize: re.findall(r"[\w']+|[.,!?;:\"\-\(\)]", text), each match     *)
(* lower-cased.  The scan is leftmost, the word alternative is greedy.     *)
(***************************************************************************)
RECURSIVE WordEnd(_, _)
\* last index of the maximal run of word characters that starts at i
WordEnd(text, i) ==
    IF i < Len(text) /\ IsWordChar(text[i + 1]) THEN WordEnd(text, i + 1) ELSE i

RECURSIVE Ascending(_, _, _)
\* the members of the set S of integers that lie in lo..hi, in ascending order
Ascending(S, lo, hi) ==
    IF lo > hi THEN <<>>
    ELSE IF lo = hi THEN (IF lo \in S THEN <<lo>> ELSE <<>>)
    ELSE LET mid == (lo + hi) \div 2
         IN  Ascending(S, lo, mid) \o Ascending(S, mid + 1, hi)

\* the matches of the token pattern in text, left to right: a match starts
\* at every punctuation character and at the first character of every
\* maximal run of word characters
FindAll(text) ==
    LET starts == {i \in 1..Len(text) :
                     \/ IsPunctChar(text[i])
                     \/ IsWordChar(text[i]) /\ (i = 1 \/ ~IsWordChar(text[i - 1]))}
        order == Ascending(starts, 1, Len(text))
    IN  [k \in 1..Len(order) |->
            IF IsWordChar(text[order[k]])
            THEN SubSeq(text, order[k], WordEnd(text, order[k]))
            ELSE SubSeq(text, order[k], order[k])]

tokenize(text) ==
    LET matches == FindAll(text)
    IN  [k \in 1..Len(matches) |-> Lower(matches[k])]

(***************************************************************************)
(* _detokenize                                                             *)
(***************************************************************************)
no_space_before == {<<".">>, <<",">>, <<"!">>, <<"?">>, <<";">>, <<":">>, <<")">>, <<"\"">>}
no_space_after == {<<"(">>, <<"\"">>}

RECURSIVE JoinResultSpaced(_, _)
\* a join that puts a space after an opening token too
JoinResultSpaced(tokens, i) ==
    IF i > Len(tokens) THEN <<>>
    ELSE (IF i = 1 THEN Capitalize(tokens[i])
          ELSE IF tokens[i] \in no_space_before THEN tokens[i]
          ELSE <<" ">> \o tokens[i])
         \o JoinResultSpaced(tokens, i + 1)

RECURSIVE JoinResult(_, _)
\* "".join(result) for the result list built by the loop over enumerate(tokens)
JoinResult(tokens, i) ==
    IF i > Len(tokens) THEN <<>>
    ELSE (IF i = 1 THEN Capitalize(tokens[i])
          ELSE IF tokens[i] \in no_space_before THEN tokens[i]
          ELSE IF i > 1 /\ tokens[i - 1] \in no_space_after THEN tokens[i]
          ELSE <<" ">> \o tokens[i])
         \o JoinResult(tokens, i + 1)

detokenize(tokens) ==
    IF tokens = <<>> THEN <<>>
    ELSE LET text == JoinResult(tokens, 1)
         IN  IF text # <<>> /\ text[Len(text)] \notin {".", "!", "?"}
             THEN text \o <<".", ".", ".">>
             ELSE text

(***************************************************************************)
(* The chain: dict[tuple[str, ...], list[str]] in insertion order.         *)
(***************************************************************************)
ChainKeys(chain) == [k \in 1..Len(chain) |-> chain[k].key]

KeyIn(chain, key) == \E k \in 1..Len(chain) : chain[k].key = key

\* chain[key], for a key that is present
ChainGet(chain, key) ==
    LET k == CHOOSE k \in 1..Len(chain) : chain[k].key = key
    IN  chain[k].words

\* a build that keeps each successor once per state
ChainAppendDedup(chain, key, next_word) ==
    IF KeyIn(chain, key)
    THEN [k \in 1..Len(chain) |->
            IF chain[k].key = key
               /\ \A j \in 1..Len(chain[k].words) : chain[k].words[j] # next_word
            THEN [key |-> key, words |-> Append(chain[k].words, next_word)]
            ELSE chain[k]]
    ELSE Append(chain, [key |-> key, words |-> <<next_word>>])

\* chain[key].append(next_word) on a defaultdict(list)
ChainAppend(chain, key, next_word) ==
    IF KeyIn(chain, key)
    THEN [k \in 1..Len(chain) |->
            IF chain[k].key = key
            THEN [key |-> key, words |-> Append(chain[k].words, next_word)]
            ELSE chain[k]]
    ELSE Append(chain, [key |-> key, words |-> <<next_word>>])

RECURSIVE BuildLoop(_, _, _, _, _)
\* the iterations lo..hi of for i in range(len(words) - n), with i counted
\* from 1 here, run in their order on the chain built so far
BuildLoop(words, n, lo, hi, chain) ==
    IF lo > hi THEN chain
    ELSE IF lo = hi
         THEN ChainAppend(chain, SubSeq(words, lo, lo + n - 1), words[lo + n])
    ELSE LET mid == (lo + hi) \div 2
             done == BuildLoop(words, n, lo, mid, chain)
         IN  \* the first half is evaluated before the second half starts
             IF Len(done) > 0 THEN BuildLoop(words, n, mid + 1, hi, done)
             ELSE done

\* a build that looks at the length of the text before it looks at n
build_chain_length_first(text, n) ==
    LET words == tokenize(text)
    IN  IF Len(words) <= n THEN [kind |-> "ok", chain |-> <<>>]
        ELSE IF n < 1 THEN [kind |-> "ValueError", chain |-> <<>>]
        ELSE [kind |-> "ok", chain |-> BuildLoop(words, n, 1, Len(words) - n, <<>>)]

build_chain(text, n) ==
    IF n < 1 THEN [kind |-> "ValueError", chain |-> <<>>]
    ELSE LET words == tokenize(text)
         IN  IF Len(words) <= n THEN [kind |-> "ok", chain |-> <<>>]
             ELSE [kind |-> "ok", chain |-> BuildLoop(words, n, 1, Len(words) - n, <<>>)]

(***************************************************************************)
(* random.Random: the state of a random source is a number in             *)
(* 0..RngPeriod-1; every draw advances it.  Two sources in the same state  *)
(* make the same draws.                                                    *)
(***************************************************************************)
RngStates == 0..(RngPeriod - 1)

\* rng.choice(seq): the element picked in state s, for a non-empty seq
RngChoice(s, seq) == seq[(s % Len(seq)) + 1]

\* the state of the source after one choice
RngNext(s) == (s + 1) % RngPeriod

\* a generate that always draws from a new OS-seeded source
RngAlwaysFresh(rng, fresh) == fresh

\* rng = rng or random.Random(); fresh is the state of a new OS-seeded source
RngOrFresh(rng, fresh) == IF rng # None THEN rng[1] ELSE fresh

(***************************************************************************)
(* generate                                                                *)
(***************************************************************************)
\* words[-n:]
LastN(words, n) ==
    IF n = 0 THEN words ELSE SubSeq(words, Len(words) - n + 1, Len(words))

\* range(max_words - n): the number of iterations of the loop
LoopCount(max_words, n) == IF max_words - n > 0 THEN max_words - n ELSE 0

\* an entry check that guards only the random pick of a seed
EmptyChainRaisesUnseeded(chain, seed) == chain = <<>> /\ seed = None

\* lines 81-82: if not chain: raise ValueError, whatever seed was passed
EmptyChainRaises(chain, seed) == chain = <<>>

\* a loop body that draws from the successors of the first state of the chain
LoopBodyFirstState(chain, words, n, rng) ==
    LET key == LastN(words, n)
    IN  IF ~KeyIn(chain, key)
        THEN [brk |-> TRUE, words |-> words, rng |-> rng]
        ELSE [brk |-> FALSE,
              words |-> Append(words, RngChoice(rng, chain[1].words)),
              rng |-> RngNext(rng)]

\* a loop body that skips the iteration on a dead end instead of leaving
LoopBodyContinue(chain, words, n, rng) ==
    LET key == LastN(words, n)
    IN  IF ~KeyIn(chain, key)
        THEN [brk |-> FALSE, words |-> words, rng |-> rng]
        ELSE [brk |-> FALSE,
              words |-> Append(words, RngChoice(rng, ChainGet(chain, key))),
              rng |-> RngNext(rng)]

\* one iteration of the loop body: break on a dead end, else append a choice
LoopBody(chain, words, n, rng) ==
    LET key == LastN(words, n)
    IN  IF ~KeyIn(chain, key)
        THEN [brk |-> TRUE, words |-> words, rng |-> rng]
        ELSE [brk |-> FALSE,
              words |-> Append(words, RngChoice(rng, ChainGet(chain, key))),
              rng |-> RngNext(rng)]

RECURSIVE GenerateRun(_, _, _, _, _)
\* lines 93-98 run to their end: the loop of generate with left iterations to go
GenerateRun(chain, ws, n, rng, left) ==
    IF left = 0 THEN ws
    ELSE LET r == LoopBody(chain, ws, n, rng)
         IN  IF r.brk THEN r.words
             ELSE GenerateRun(chain, r.words, n, r.rng, left - 1)

\* generate(chain, seed, max_words, rng) as one call.  The value is the set
\* of outcomes the call can have: one for each state of a new random source.
generate(chain, seed, max_words, rng) ==
    IF EmptyChainRaises(chain, seed)
    THEN {[kind |-> "ValueError", text |-> <<>>]}
    ELSE {LET r == RngOrFresh(rng, fresh)
              pick == seed = None
              sd == IF pick THEN RngChoice(r, ChainKeys(chain)) ELSE seed[1]
              r1 == IF pick THEN RngNext(r) ELSE r
          IN  [kind |-> "ok",
               text |-> detokenize(GenerateRun(chain, sd, Len(sd), r1,
                                               LoopCount(max_words, Len(sd))))]
          : fresh \in RngStates}

\* a generate_tldr that hands every chain to generate
generate_tldr_unguarded(text, max_words, n) ==
    LET b == build_chain(text, n)
    IN  IF b.kind = "ValueError" THEN {[kind |-> "ValueError", text |-> <<>>]}
        ELSE generate(b.chain, None, max_words, None)

\* generate_tldr(text, max_words, n): the set of outcomes of the call
generate_tldr(text, max_words, n) ==
    LET b == build_chain(text, n)
    IN  IF b.kind = "ValueError" THEN {[kind |-> "ValueError", text |-> <<>>]}
        ELSE IF b.chain = <<>> THEN {[kind |-> "ok", text |-> <<>>]}
        ELSE generate(b.chain, None, max_words, None)

(***************************************************************************)
(* merge_chains                                                            *)
(***************************************************************************)
\* a merge in which a later chain replaces the list of a state
ChainExtendReplace(merged, key, ws) ==
    IF KeyIn(merged, key)
    THEN [k \in 1..Len(merged) |->
            IF merged[k].key = key THEN [key |-> key, words |-> ws]
            ELSE merged[k]]
    ELSE Append(merged, [key |-> key, words |-> ws])

\* merged[key].extend(words) on a defaultdict(list)
ChainExtend(merged, key, ws) ==
    IF KeyIn(merged, key)
    THEN [k \in 1..Len(merged) |->
            IF merged[k].key = key
            THEN [key |-> key, words |-> merged[k].words \o ws]
            ELSE merged[k]]
    ELSE Append(merged, [key |-> key, words |-> ws])

RECURSIVE MergeItems(_, _, _)
\* for key, words in chain.items(), from item i on
MergeItems(merged, chain, i) ==
    IF i > Len(chain) THEN merged
    ELSE MergeItems(ChainExtend(merged, chain[i].key, chain[i].words), chain, i + 1)

RECURSIVE MergeLoop(_, _, _)
\* for chain in chains, from chain c on
MergeLoop(merged, chains, c) ==
    IF c > Len(chains) THEN merged
    ELSE MergeLoop(MergeItems(merged, chains[c], 1), chains, c + 1)

merge_chains(chains) == MergeLoop(<<>>, chains, 1)

(***************************************************************************)
(* chain_entropy.  A float is modelled as a rational [num, den] whose unit *)
(* is a millionth of a bit; math.log2 of a ratio count/total is the        *)
(* difference of the logarithms of the two integers.                       *)
(***************************************************************************)
\* math.log2(k) * 10^6, rounded, for the small integers list lengths take
Log2Micro(k) ==
    CASE k = 1 -> 0        [] k = 2 -> 1000000  [] k = 3 -> 1584963
      [] k = 4 -> 2000000  [] k = 5 -> 2321928  [] k = 6 -> 2584963
      [] k = 7 -> 2807355  [] k = 8 -> 3000000  [] k = 9 -> 3169925
      [] k = 10 -> 3321928 [] k = 11 -> 3459432 [] k = 12 -> 3584963

Rat(num, den) == [num |-> num, den |-> den]
RatAdd(a, b) == Rat(a.num * b.den + b.num * a.den, a.den * b.den)
RatEq(a, b) == a.num * b.den = b.num * a.den
RatZero == Rat(0, 1)

RECURSIVE CountWords(_, _, _)
\* counts[w] = counts.get(w, 0) + 1 over the list: [w, count] in first-seen order
CountWords(words, i, counts) ==
    IF i > Len(words) THEN counts
    ELSE LET w == words[i]
             seen == \E k \in 1..Len(counts) : counts[k].w = w
         IN  CountWords(words, i + 1,
                IF seen
                THEN [k \in 1..Len(counts) |->
                        IF counts[k].w = w
                        THEN [w |-> w, count |-> counts[k].count + 1]
                        ELSE counts[k]]
                ELSE Append(counts, [w |-> w, count |-> 1]))

RECURSIVE StateEntropyLoop(_, _, _, _)
\* for count in counts.values(): p = count / total; entropy -= p * log2(p)
StateEntropyLoop(counts, k, total, entropy) ==
    IF k > Len(counts) THEN entropy
    ELSE StateEntropyLoop(counts, k + 1, total,
            RatAdd(entropy,
                   Rat(counts[k].count * (Log2Micro(total) - Log2Micro(counts[k].count)),
                       total)))

RECURSIVE TotalEntropyLoop(_, _, _)
\* for words in chain.values(): skip len(words) <= 1, else add the entropy
TotalEntropyLoop(chain, k, total_entropy) ==
    IF k > Len(chain) THEN total_entropy
    ELSE LET words == chain[k].words
         IN  IF Len(words) <= 1
             THEN TotalEntropyLoop(chain, k + 1, total_entropy)
             ELSE TotalEntropyLoop(chain, k + 1,
                    RatAdd(total_entropy,
                           StateEntropyLoop(CountWords(words, 1, <<>>), 1,
                                            Len(words), RatZero)))

\* an average over the states that have more than one successor only
EntropyDivisorMulti(chain) ==
    Cardinality({k \in 1..Len(chain) : Len(chain[k].words) > 1})

\* the divisor of the final average
EntropyDivisor(chain) == Len(chain)

chain_entropy(chain) ==
    IF chain = <<>> THEN RatZero
    ELSE LET total_entropy == TotalEntropyLoop(chain, 1, RatZero)
         IN  Rat(total_entropy.num, total_entropy.den * EntropyDivisor(chain))

(***************************************************************************)
(* Part 2.  track/db.py: the read_history table.                           *)
(* A row is [article_id, read_at, topics]; topics is the JSON text that    *)
(* json.dumps wrote, modelled by its parse: [json |-> "array", items].     *)
(***************************************************************************)
MaxHistory == 3     \* rows the read_history table may hold
MaxTime == 2        \* read_at timestamps are 1..MaxTime
MaxWindow == 5      \* largest window_size passed to detect_topic_drift

\* json.dumps(topics) for a list of strings
JsonDumps(topics) == [json |-> "array", items |-> topics]

\* json.loads(text): the list, or JSONDecodeError for text that is not JSON
JsonLoads(text) ==
    IF text.json = "array" THEN [kind |-> "ok", value |-> text.items]
    ELSE [kind |-> "JSONDecodeError", value |-> <<>>]

RECURSIVE SortByReadAtDesc(_)
\* entries.sort(key=read_at, reverse=True): stable, equal keys keep their order
SortByReadAtDesc(entries) ==
    IF entries = <<>> THEN <<>>
    ELSE LET n == Len(entries)
             rest == SortByReadAtDesc(SubSeq(entries, 1, n - 1))
             e == entries[n]
             \* e goes after every entry whose read_at is >= its own
             k == Cardinality({i \in 1..Len(rest) : rest[i].read_at >= e.read_at})
         IN  SubSeq(rest, 1, k) \o <<e>> \o SubSeq(rest, k + 1, Len(rest))

\* entries[:limit]
Prefix(seq, limit) ==
    IF limit >= Len(seq) THEN seq
    ELSE IF limit >= 0 THEN SubSeq(seq, 1, limit)
    ELSE SubSeq(seq, 1, IF Len(seq) + limit > 0 THEN Len(seq) + limit ELSE 0)

\* get_read_history without its sort: the rows as the table yields them
get_read_history_unsorted(rows, dbOk, limit) ==
    IF dbOk
    THEN [kind |-> "Ok", value |-> Prefix(rows, limit)]
    ELSE [kind |-> "Err", value |-> <<>>]

\* get_read_history(db, limit); dbOk is FALSE when sqlite raises sqlite3.Error
get_read_history(rows, dbOk, limit) ==
    IF dbOk
    THEN [kind |-> "Ok", value |-> Prefix(SortByReadAtDesc(rows), limit)]
    ELSE [kind |-> "Err", value |-> <<>>]

(***************************************************************************)
(* track/drift.py                                                          *)
(***************************************************************************)
\* the function-local table ALTERNATIVES
ALTERNATIVES ==
    [t \in {"ai", "tech", "crypto", "finance", "politics", "science", "culture"} |->
        CASE t = "ai" -> <<"philosophy", "culture", "science">>
          [] t = "tech" -> <<"culture", "science", "finance">>
          [] t = "crypto" -> <<"finance", "science", "culture">>
          [] t = "finance" -> <<"science", "culture", "tech">>
          [] t = "politics" -> <<"science", "culture", "philosophy">>
          [] t = "science" -> <<"culture", "philosophy", "tech">>
          [] t = "culture" -> <<"science", "tech", "philosophy">>]

\* every string the table can suggest
AlternativeNames == {"philosophy", "culture", "science", "finance", "tech"}

\* the iteration orders a set of these strings can have (string hashing is
\* randomised per process): every arrangement of the names
SetOrders ==
    {o \in [1..Cardinality(AlternativeNames) -> AlternativeNames] :
        \A i, j \in 1..Cardinality(AlternativeNames) : o[i] = o[j] => i = j}

RECURSIVE SelectIn(_, _)
\* the elements of the sequence order that are in S, in that order
SelectIn(order, S) ==
    IF order = <<>> THEN <<>>
    ELSE IF order[1] \in S THEN <<order[1]>> \o SelectIn(Tail(order), S)
    ELSE SelectIn(Tail(order), S)

\* _suggest_alternatives(dominant_topics): the lists it can return, one for
\* each iteration order of the set suggestions
suggest_alternatives(dominant_topics) ==
    LET suggestions ==
            UNION {{ALTERNATIVES[t][i] : i \in 1..Len(ALTERNATIVES[t])} :
                     t \in {dominant_topics[k] : k \in 1..Len(dominant_topics)}
                           \cap DOMAIN ALTERNATIVES}
        remaining == suggestions \ {dominant_topics[k] : k \in 1..Len(dominant_topics)}
    IN  {Prefix(SelectIn(order, remaining), 3) : order \in SetOrders}

RECURSIVE CollectTopics(_, _)
\* the loop over history[:window_size] that extends all_topics
CollectTopics(window, i) ==
    IF i > Len(window) THEN <<>>
    ELSE LET loaded == JsonLoads(window[i].topics)
         IN  (IF loaded.kind = "ok" THEN loaded.value ELSE <<>>)
             \o CollectTopics(window, i + 1)

RECURSIVE MostCommon(_)
\* Counter.most_common(): by count, descending; equal counts in first-seen order
MostCommon(counts) ==
    IF counts = <<>> THEN <<>>
    ELSE LET n == Len(counts)
             rest == MostCommon(SubSeq(counts, 1, n - 1))
             e == counts[n]
             k == Cardinality({i \in 1..Len(rest) : rest[i].count >= e.count})
         IN  SubSeq(rest, 1, k) \o <<e>> \o SubSeq(rest, k + 1, Len(rest))

RECURSIVE DominantOf(_, _)
\* [topic for topic, count in most_common if count >= dominant_count * 0.5]
DominantOf(most_common, dominant_count) ==
    IF most_common = <<>> THEN <<>>
    ELSE (IF 2 * most_common[1].count >= dominant_count
          THEN <<most_common[1].w>> ELSE <<>>)
         \o DominantOf(Tail(most_common), dominant_count)

NoReport ==
    [dominant_topics |-> <<>>, percentage |-> RatZero,
     article_count |-> 0, suggested_topics |-> <<>>]

DriftOutcome(kind, report) == [kind |-> kind, report |-> report]

\* lines 38-80: the body after the history has been read; the threshold is
\* percent / 100.  The value is the set of outcomes the call can have.
AnalyseHistory(history, window_size, percent) ==
    IF Len(history) < window_size \div 2 THEN {DriftOutcome("OkNone", NoReport)}
    ELSE LET window == Prefix(history, window_size)
             all_topics == CollectTopics(window, 1)
         IN  IF all_topics = <<>> THEN {DriftOutcome("OkNone", NoReport)}
             ELSE LET topic_counts == CountWords(all_topics, 1, <<>>)
                      total_topics == Len(all_topics)
                      most_common == Prefix(MostCommon(topic_counts), 3)
                      dominant_count == most_common[1].count
                  IN  IF dominant_count * 100 >= percent * total_topics
                      THEN LET dominant_topics == DominantOf(most_common, dominant_count)
                           IN  {DriftOutcome("OkReport",
                                  [dominant_topics |-> dominant_topics,
                                   percentage |-> Rat(dominant_count, total_topics),
                                   article_count |-> Len(window),
                                   suggested_topics |-> suggested]) :
                                suggested \in suggest_alternatives(dominant_topics)}
                      ELSE {DriftOutcome("OkNone", NoReport)}

\* the names bound in the namespace of track/drift.py: its imports
\* (lines 7-15) and its two functions
DriftGlobals ==
    {"json", "Counter", "Any", "Database", "StorageError", "Result", "ok",
     "TopicTag", "get_read_history", "detect_topic_drift", "_suggest_alternatives"}

\* detect_topic_drift, from the result of its call of get_read_history on.
\* Line 35 evaluates the name err, which is neither bound in the module nor a
\* builtin, so the isinstance test raises NameError whatever the history.
\* The value is the set of outcomes the call can have.
detect_topic_drift(history_result, window_size, percent) ==
    IF "err" \notin DriftGlobals THEN {DriftOutcome("NameError", NoReport)}
    ELSE IF history_result.kind = "Err" THEN {DriftOutcome("Err", NoReport)}
    ELSE AnalyseHistory(history_result.value, window_size, percent)

(***************************************************************************)
(* State.                                                                  *)
(***************************************************************************)
VARIABLES
    words,      \* build_chain: the tokens of the text it was given
    ngram,      \* build_chain: its argument n
    built,      \* build_chain: None, or what it returned or raised
    entropy,    \* chain_entropy: None, or the value returned
    gArgs,      \* generate: None, or the arguments seed, max_words, rng
    gCall,      \* generate: which of two calls with the same arguments runs
    gPc,        \* generate: position in the function body
    gN,         \* generate: local n
    gWords,     \* generate: local words
    gRng,       \* generate: state of the random source in use
    gLeft,      \* generate: iterations of the loop still to run
    gOut        \* generate: the results of the calls completed so far

markovVars == <<words, ngram, built, entropy,
                gArgs, gCall, gPc, gN, gWords, gRng, gLeft, gOut>>

VARIABLES
    read_history,   \* the rows of the read_history table, in insertion order
    dbOk,           \* FALSE while sqlite answers with sqlite3.Error
    driftCall,      \* None, or the arguments and the table of the last call
    driftResult     \* what the last call of detect_topic_drift returned or raised

driftVars == <<read_history, dbOk, driftCall, driftResult>>

VARIABLES
    call,       \* the call of a pure function: its name and its arguments
    result      \* what that call returned or raised

callVars == <<call, result>>

VARIABLES
    articles    \* the rows of the articles table, in rowid order

storeVars == <<articles>>

VARIABLES
    sources_file,   \* the sources file: None, or the document it holds
    fsOk,           \* FALSE while the file system answers with OSError
    source_list     \* the list of sources the caller holds

sourceVars == <<sources_file, fsOk, source_list>>

vars == <<markovVars, driftVars, callVars, storeVars, sourceVars>>

(***************************************************************************)
(* Inputs.                                                                 *)
(***************************************************************************)
MaxN == 2

\* whitespace-separated pieces of the texts fed to build_chain
Chunks == {<<"a">>, <<"B", ".">>, <<"a", "@", "B">>}

RECURSIVE ChunkSeqs(_)
ChunkSeqs(k) ==
    IF k = 0 THEN {<<>>}
    ELSE {Append(s, c) : s \in ChunkSeqs(k - 1), c \in Chunks}

RECURSIVE JoinSpace(_)
JoinSpace(chunks) ==
    IF chunks = <<>> THEN <<>>
    ELSE IF Len(chunks) = 1 THEN chunks[1]
    ELSE chunks[1] \o <<" ">> \o JoinSpace(Tail(chunks))

Texts == {JoinSpace(cs) : cs \in UNION {ChunkSeqs(k) : k \in 0..MaxChunks}}

TokA == <<"a">>
TokB == <<"b">>

\* the seeds a caller passes: None, or a tuple of tokens
SeedTuples == {<<>>, <<TokA>>, <<TokB>>, <<TokA, TokB>>, <<TokB, TokA>>,
               <<TokA, TokB, TokA>>}
Seeds == {None} \cup {Some(t) : t \in SeedTuples}
RngArgs == {None} \cup {Some(s) : s \in RngStates}

(***************************************************************************)
(* Part 3.  generate/summarize.py: extractive_summary and smart_tldr.      *)
(* The characters of the model hold no digit and no underscore, so the     *)
(* pattern \b[a-zA-Z]+\b matches the maximal runs of letters.              *)
(***************************************************************************)
\* str.isspace() on one character
IsSpace(c) == c \in {" ", "\n"}

IsAlpha(c) ==
    c \in {"a", "b", "d", "e", "f", "n", "s", "t", "u",
           "A", "B", "D", "E", "F", "N", "S", "T", "U"}

RECURSIVE LStrip(_)
LStrip(s) == IF s # <<>> /\ IsSpace(s[1]) THEN LStrip(Tail(s)) ELSE s

RECURSIVE RStrip(_)
RStrip(s) ==
    IF s # <<>> /\ IsSpace(s[Len(s)]) THEN RStrip(SubSeq(s, 1, Len(s) - 1))
    ELSE s

\* str.strip()
Strip(s) == RStrip(LStrip(s))

RECURSIVE NonSpaceEnd(_, _)
\* last index of the run of non-whitespace characters that starts at i
NonSpaceEnd(text, i) ==
    IF i < Len(text) /\ ~IsSpace(text[i + 1]) THEN NonSpaceEnd(text, i + 1) ELSE i

RECURSIVE SpaceEnd(_, _)
\* last index of the run of whitespace characters that starts at i
SpaceEnd(text, i) ==
    IF i < Len(text) /\ IsSpace(text[i + 1]) THEN SpaceEnd(text, i + 1) ELSE i

\* str.split() without arguments: the maximal runs of non-whitespace
Split(text) ==
    LET starts == {i \in 1..Len(text) :
                     ~IsSpace(text[i]) /\ (i = 1 \/ IsSpace(text[i - 1]))}
        order == Ascending(starts, 1, Len(text))
    IN  [k \in 1..Len(order) |-> SubSeq(text, order[k], NonSpaceEnd(text, order[k]))]

\* the characters the pattern ([.!?])\s+ starts with
IsTerminator(c) == c \in {".", "!", "?"}

\* re.sub(r'([.!?])\s+', r'\1|||', text).split('|||'): a match is a
\* terminator and the whitespace run behind it; a piece ends with the
\* terminator of a match and the next one starts behind the whitespace
SplitOnMarks(text) ==
    LET marks == {i \in 1..Len(text) :
                    IsTerminator(text[i]) /\ i < Len(text) /\ IsSpace(text[i + 1])}
        order == Ascending(marks, 1, Len(text))
    IN  [k \in 1..(Len(order) + 1) |->
            SubSeq(text,
                   IF k = 1 THEN 1 ELSE SpaceEnd(text, order[k - 1] + 1) + 1,
                   IF k = Len(order) + 1 THEN Len(text) ELSE order[k])]

\* _split_sentences
split_sentences(text) ==
    LET pieces == SplitOnMarks(text)
        stripped == [k \in 1..Len(pieces) |-> Strip(pieces[k])]
        cleaned == SelectSeq(stripped, LAMBDA p : p # <<>>)
    IN  SelectSeq(cleaned, LAMBDA p : Len(Split(p)) >= 3)

\* the stop words of _get_keywords that the letters of the model can spell
stop_words ==
    {<<"a">>, <<"a", "n">>, <<"a", "n", "d">>, <<"a", "s">>,
     <<"a", "t">>, <<"b", "e">>,
     <<"b", "e", "e", "n">>, <<"b", "u", "t">>}

RECURSIVE AlphaEnd(_, _)
AlphaEnd(text, i) ==
    IF i < Len(text) /\ IsAlpha(text[i + 1]) THEN AlphaEnd(text, i + 1) ELSE i

\* re.findall(r"\b[a-zA-Z]+\b", text): the maximal runs of letters
LetterRuns(text) ==
    LET starts == {i \in 1..Len(text) :
                     IsAlpha(text[i]) /\ (i = 1 \/ ~IsAlpha(text[i - 1]))}
        order == Ascending(starts, 1, Len(text))
    IN  [k \in 1..Len(order) |-> SubSeq(text, order[k], AlphaEnd(text, order[k]))]

\* _get_keywords
get_keywords(text) ==
    SelectSeq(LetterRuns(Lower(text)),
              LAMBDA w : w \notin stop_words /\ Len(w) > 2)

RECURSIVE Flatten(_, _)
\* all_keywords: the keyword lists of the sentences, one after the other
Flatten(lists, i) ==
    IF i > Len(lists) THEN <<>> ELSE lists[i] \o Flatten(lists, i + 1)

\* Counter(all_keywords)[kw]
KeywordFreq(all_keywords, kw) ==
    Cardinality({k \in 1..Len(all_keywords) : all_keywords[k] = kw})

RECURSIVE SumFreq(_, _, _)
\* sum(keyword_freq[kw] for kw in keywords), from keyword i on
SumFreq(all_keywords, keywords, i) ==
    IF i > Len(keywords) THEN 0
    ELSE KeywordFreq(all_keywords, keywords[i]) + SumFreq(all_keywords, keywords, i + 1)

RatMul(a, b) == Rat(a.num * b.num, a.den * b.den)
RatLess(a, b) == a.num * b.den < b.num * a.den

\* 1.5 if i / len(sentences) < 0.2 else 1.0, for the index i counted from 0
PositionBonus(i, count) == IF 5 * i < count THEN Rat(3, 2) ELSE Rat(1, 1)

\* min(wc / 15, 1.0) if wc < 15 else max(0.5, 1.0 - (wc - 30) / 50)
LengthFactor(wc) ==
    IF wc < 15 THEN Rat(wc, 15)
    ELSE IF 2 * (80 - wc) >= 50 THEN Rat(80 - wc, 50)
    ELSE Rat(1, 2)

\* _score_sentences
score_sentences(sentences) ==
    LET sentence_keywords == [k \in 1..Len(sentences) |-> get_keywords(sentences[k])]
        all_keywords == Flatten(sentence_keywords, 1)
    IN  [k \in 1..Len(sentences) |->
            LET keywords == sentence_keywords[k]
            IN  IF keywords = <<>> THEN RatZero
                ELSE RatMul(RatMul(Rat(SumFreq(all_keywords, keywords, 1), Len(keywords)),
                                   PositionBonus(k - 1, Len(sentences))),
                            LengthFactor(Len(Split(sentences[k]))))]

\* a sort that puts the lowest score first
SortedIndicesAscending(scores) ==
    LET Before(j, i) == \/ RatLess(scores[j], scores[i])
                        \/ RatEq(scores[j], scores[i]) /\ j < i
        Rank(i) == 1 + Cardinality({j \in 1..Len(scores) : Before(j, i)})
    IN  [k \in 1..Len(scores) |-> CHOOSE i \in 1..Len(scores) : Rank(i) = k]

\* sorted(enumerate(sentences), key=score, reverse=True): the indices, the
\* highest score first; the sort is stable, so equal scores keep their order
SortedIndices(scores) ==
    LET Before(j, i) == \/ RatLess(scores[i], scores[j])
                        \/ RatEq(scores[j], scores[i]) /\ j < i
        Rank(i) == 1 + Cardinality({j \in 1..Len(scores) : Before(j, i)})
    IN  [k \in 1..Len(scores) |-> CHOOSE i \in 1..Len(scores) : Rank(i) = k]

\* a summary that returns the text only when it has fewer sentences than asked
extractive_summary_strict(text, max_sentences) ==
    IF Strip(text) = <<>> THEN <<>>
    ELSE LET sentences == split_sentences(text)
         IN  IF Len(sentences) < max_sentences THEN Strip(text)
             ELSE LET scores == score_sentences(sentences)
                      top == Prefix(SortedIndices(scores), max_sentences)
                      top_indices == Ascending({top[k] : k \in 1..Len(top)}, 1, Len(sentences))
                  IN  JoinSpace([k \in 1..Len(top_indices) |-> sentences[top_indices[k]]])

\* extractive_summary
extractive_summary(text, max_sentences) ==
    IF Strip(text) = <<>> THEN <<>>
    ELSE LET sentences == split_sentences(text)
         IN  IF Len(sentences) <= max_sentences THEN Strip(text)
             ELSE LET scores == score_sentences(sentences)
                      top == Prefix(SortedIndices(scores), max_sentences)
                      top_indices == Ascending({top[k] : k \in 1..Len(top)}, 1, Len(sentences))
                  IN  JoinSpace([k \in 1..Len(top_indices) |-> sentences[top_indices[k]]])

\* word_count < 100: the texts smart_tldr takes for short
ShortTextWords == 100

\* lines 170-175: the extractive summary, cut to the word budget
TruncatedSummary(text, max_words) ==
    LET summary == extractive_summary(text, 2)
        ws == Split(summary)
    IN  IF Len(ws) > max_words
        THEN JoinSpace(Prefix(ws, max_words)) \o <<".", ".", ".">>
        ELSE summary

\* a smart_tldr that takes a text of exactly 100 words for short
smart_tldr_inclusive(text, max_words) ==
    IF Strip(text) = <<>> THEN {[kind |-> "ok", text |-> <<>>]}
    ELSE IF Len(Split(text)) <= ShortTextWords
         THEN {[kind |-> "ok", text |-> TruncatedSummary(text, max_words)]}
    ELSE {IF r.kind = "ok" /\ r.text = <<>>
          THEN [kind |-> "ok", text |-> extractive_summary(text, 2)]
          ELSE r
          : r \in generate_tldr(text, max_words, 2)}

\* smart_tldr(text, max_words): the set of outcomes of the call
smart_tldr(text, max_words) ==
    IF Strip(text) = <<>> THEN {[kind |-> "ok", text |-> <<>>]}
    ELSE IF Len(Split(text)) < ShortTextWords
         THEN {[kind |-> "ok", text |-> TruncatedSummary(text, max_words)]}
    ELSE {IF r.kind = "ok" /\ r.text = <<>>
          THEN [kind |-> "ok", text |-> extractive_summary(text, 2)]
          ELSE r
          : r \in generate_tldr(text, max_words, 2)}

MaxSentences == 3   \* sentence pieces in a text given to the summaries
MaxPick == 2        \* largest max_sentences

\* the pieces of the texts given to the summaries: three sentences of three
\* words or more, one fragment of two words
SentencePieces == {<<"B", "a", "b", " ", "a", " ", "a", ".">>,
                   <<"a", " ", " ", "a", " ", "a", "!">>,
                   <<"b", "a", "b", " ", "a", "b", "b", " ", "a", "b", "b", " ", "a", "?">>,
                   <<"a", " ", "a", ".">>}

RECURSIVE PieceSeqs(_)
PieceSeqs(k) ==
    IF k = 0 THEN {<<>>}
    ELSE {Append(ps, p) : ps \in PieceSeqs(k - 1), p \in SentencePieces}

\* the pieces joined by one space, bare and wrapped in whitespace
SummaryTexts ==
    LET joined == {JoinSpace(ps) : ps \in UNION {PieceSeqs(k) : k \in 0..MaxSentences}}
    IN  joined \cup {<<" ">> \o t \o <<"\n">> : t \in joined}

\* k copies of a word, joined by one space
Repeat(w, k) ==
    IF k = 0 THEN <<>>
    ELSE [i \in 1..(k * (Len(w) + 1) - 1) |->
            LET r == (i - 1) % (Len(w) + 1)
            IN  IF r = Len(w) THEN " " ELSE w[r + 1]]

\* texts of 99 and of 100 words: no token at all, one token, many tokens
LongTexts ==
    {Repeat(w, k) : w \in {<<"@">>, <<"a">>, <<"B", ".">>},
                    k \in {ShortTextWords - 1, ShortTextWords}}
        \cup {<<"a", " ">> \o Repeat(<<"@">>, ShortTextWords - 1)}

(***************************************************************************)
(* Part 4.  analyze/quality.py: compute_signal_score.  The score is a      *)
(* rational number, kept in lowest terms.                                  *)
(***************************************************************************)
\* the words of the three lists that the letters of the model can spell
STOP_WORDS ==
    {<<"a">>, <<"a", "n">>, <<"a", "n", "d">>, <<"a", "s">>,
     <<"a", "t">>, <<"b", "e">>,
     <<"b", "e", "e", "n">>, <<"b", "u", "t">>}
HIGH_SIGNAL_WORDS == {<<"d", "a", "t", "a">>}
LOW_SIGNAL_WORDS == {<<"s", "t", "u", "f", "f">>}

RECURSIVE GCD(_, _)
GCD(a, b) == IF b = 0 THEN a ELSE GCD(b, a % b)

\* the same number in lowest terms; the denominator is positive
RatReduce(r) ==
    LET g == GCD(IF r.num < 0 THEN -r.num ELSE r.num, r.den)
    IN  Rat(r.num \div g, r.den \div g)

RatPlus(a, b) == RatReduce(RatAdd(RatReduce(a), RatReduce(b)))
RatTimes(a, b) == RatReduce(RatMul(RatReduce(a), RatReduce(b)))
RatMin(a, b) == IF RatLess(a, b) THEN a ELSE b
RatMax(a, b) == IF RatLess(a, b) THEN b ELSE a
RatOne == Rat(1, 1)

\* Ok(value)
Ok(value) == [kind |-> "Ok", value |-> value]

RECURSIVE SumLen(_, _)
\* sum(len(w) for w in content_words), from word i on
SumLen(ws, i) == IF i > Len(ws) THEN 0 ELSE Len(ws[i]) + SumLen(ws, i + 1)

RECURSIVE PrevNonSpace(_, _)
\* the index of the last character at or before i that is no whitespace, or 0
PrevNonSpace(text, i) ==
    IF i = 0 THEN 0
    ELSE IF IsSpace(text[i]) THEN PrevNonSpace(text, i - 1)
    ELSE i

\* len of [s.strip() for s in re.split(r'[.!?]+', text) if s.strip()]: the
\* runs between terminators that hold more than whitespace, each counted at
\* its first character that is no whitespace
SentenceCount(text) ==
    Cardinality({i \in 1..Len(text) :
        /\ ~IsSpace(text[i]) /\ ~IsTerminator(text[i])
        /\ LET p == PrevNonSpace(text, i - 1)
           IN  p = 0 \/ IsTerminator(text[p])})

\* lines 112-122: complexity_score from total_words and len(sentences)
ComplexityScore(total_words, count) ==
    IF count = 0 THEN Rat(1, 2)
    ELSE IF 15 * count <= total_words /\ total_words <= 25 * count THEN RatOne
    ELSE IF total_words < 15 * count THEN Rat(total_words, 15 * count)
    ELSE RatMax(Rat(1, 2), Rat(50 * count - total_words, 25 * count))

\* lines 89-138: the score of a text with content words
Signal(text, ws, content_words) ==
    LET total_words == Len(ws)
        content_count == Len(content_words)
        unique == Cardinality({content_words[k] : k \in 1..content_count})
        vocab_score == RatMin(Rat(6 * unique, 5 * content_count), RatOne)
        length_score ==
            RatMax(RatZero,
                   RatMin(Rat(SumLen(content_words, 1) - 3 * content_count,
                              5 * content_count), RatOne))
        high_signal_count ==
            Cardinality({k \in 1..content_count : content_words[k] \in HIGH_SIGNAL_WORDS})
        high_signal_ratio ==
            RatMin(IF content_count > 20 THEN Rat(20 * high_signal_count, content_count)
                   ELSE Rat(high_signal_count, 1), RatOne)
        low_signal_count ==
            Cardinality({k \in 1..content_count : content_words[k] \in LOW_SIGNAL_WORDS})
        low_signal_ratio ==
            RatMin(IF content_count > 10 THEN Rat(10 * low_signal_count, content_count)
                   ELSE Rat(low_signal_count, 1), RatOne)
        complexity_score == ComplexityScore(total_words, SentenceCount(text))
        content_ratio == Rat(content_count, total_words)
        signal ==
            RatPlus(RatPlus(RatPlus(RatTimes(vocab_score, Rat(25, 100)),
                                    RatTimes(length_score, Rat(15, 100))),
                            RatPlus(RatTimes(high_signal_ratio, Rat(20, 100)),
                                    RatTimes(RatPlus(RatOne, Rat(-low_signal_ratio.num,
                                                                 low_signal_ratio.den)),
                                             Rat(15, 100)))),
                    RatPlus(RatTimes(complexity_score, Rat(15, 100)),
                            RatTimes(content_ratio, Rat(10, 100))))
    IN  RatMax(RatZero, RatMin(RatOne, signal))

\* a score that takes a text of exactly 10 words for too short
compute_signal_score_inclusive(text) ==
    IF Strip(text) = <<>> THEN Ok(Rat(1, 2))
    ELSE LET ws == LetterRuns(Lower(text))
         IN  IF Len(ws) <= 10 THEN Ok(Rat(1, 2))
             ELSE LET content_words == SelectSeq(ws, LAMBDA w : w \notin STOP_WORDS)
                  IN  IF content_words = <<>> THEN Ok(Rat(1, 5))
                      ELSE Ok(Signal(text, ws, content_words))

\* a score without the check of lines 86-87: the division of line 93 by
\* content_count = 0 raises ZeroDivisionError
compute_signal_score_unchecked(text) ==
    IF Strip(text) = <<>> THEN Ok(Rat(1, 2))
    ELSE LET ws == LetterRuns(Lower(text))
         IN  IF Len(ws) < 10 THEN Ok(Rat(1, 2))
             ELSE LET content_words == SelectSeq(ws, LAMBDA w : w \notin STOP_WORDS)
                  IN  IF content_words = <<>>
                      THEN [kind |-> "ZeroDivisionError", value |-> RatZero]
                      ELSE Ok(Signal(text, ws, content_words))

\* compute_signal_score(text)
compute_signal_score(text) ==
    IF Strip(text) = <<>> THEN Ok(Rat(1, 2))
    ELSE LET ws == LetterRuns(Lower(text))
         IN  IF Len(ws) < 10 THEN Ok(Rat(1, 2))
             ELSE LET content_words == SelectSeq(ws, LAMBDA w : w \notin STOP_WORDS)
                  IN  IF content_words = <<>> THEN Ok(Rat(1, 5))
                      ELSE Ok(Signal(text, ws, content_words))

MaxStop == 22       \* copies of the stop word "a" in a scored text
MaxRepeat == 2      \* copies of each other word in a scored text

\* a scored text: k copies of each word, group after group; with marks, a
\* full stop ends every group
ScoredGroup(w, k, marks) ==
    IF k = 0 THEN <<>>
    ELSE Repeat(w, k) \o (IF marks THEN <<".", " ">> ELSE <<" ">>)

ScoredTexts ==
    {ScoredGroup(<<"a">>, k1, marks) \o ScoredGroup(<<"b", "u", "t">>, k2, marks)
        \o ScoredGroup(<<"b", "a", "b">>, k3, marks) \o ScoredGroup(<<"D", "a", "t", "a">>, k4, marks)
        \o ScoredGroup(<<"s", "t", "u", "f", "f">>, k5, marks) :
        k1 \in 0..MaxStop, k2 \in 0..1, k3 \in 0..MaxRepeat, k4 \in 0..MaxRepeat,
        k5 \in 0..MaxRepeat, marks \in BOOLEAN}
        \cup {<<" ", "\n">>, <<".", " ", "!">>}

(***************************************************************************)
(* Part 5.  analyze/topics.py: extract_topics and topic_overlap.           *)
(***************************************************************************)
\* TOPIC_KEYWORDS, in the order of the dict: the topics with a keyword that
\* the letters of the model can spell, and those keywords
TOPIC_KEYWORDS ==
    <<[topic |-> "crypto", keywords |-> <<<<"n", "f", "t">>, <<"u", "s", "d", "t">>>>],
      [topic |-> "finance", keywords |-> <<<<"f", "e", "d">>>>],
      [topic |-> "politics", keywords |-> <<<<"s", "e", "n", "a", "t", "e">>>>],
      [topic |-> "science", keywords |-> <<<<"n", "a", "s", "a">>>>]>>

\* len(re.findall(r"\b" + re.escape(keyword) + r"\b", text_lower)) for a
\* keyword made of letters: the maximal runs of letters that equal it
KeywordCount(keyword, text_lower) ==
    Cardinality({i \in 1..(Len(text_lower) - Len(keyword) + 1) :
        /\ SubSeq(text_lower, i, i + Len(keyword) - 1) = keyword
        /\ i = 1 \/ ~IsAlpha(text_lower[i - 1])
        /\ i + Len(keyword) - 1 = Len(text_lower)
              \/ ~IsAlpha(text_lower[i + Len(keyword)])})

RECURSIVE SumKeywordCounts(_, _, _)
\* the sum of the counts of the keywords of one topic, from keyword i on
SumKeywordCounts(keywords, text_lower, i) ==
    IF i > Len(keywords) THEN 0
    ELSE KeywordCount(keywords[i], text_lower)
            + SumKeywordCounts(keywords, text_lower, i + 1)

\* a scoring that enters every topic into the counter, matched or not
ScoreTopicsAll(text_lower) ==
    [k \in 1..Len(TOPIC_KEYWORDS) |->
        [topic |-> TOPIC_KEYWORDS[k].topic,
         score |-> SumKeywordCounts(TOPIC_KEYWORDS[k].keywords, text_lower, 1)]]

\* lines 63-70: topic_scores, a Counter in insertion order; a topic enters
\* it with its first keyword that matches
ScoreTopics(text_lower) ==
    SelectSeq([k \in 1..Len(TOPIC_KEYWORDS) |->
                  [topic |-> TOPIC_KEYWORDS[k].topic,
                   score |-> SumKeywordCounts(TOPIC_KEYWORDS[k].keywords,
                                              text_lower, 1)]],
              LAMBDA e : e.score > 0)

\* extract_topics(text, max_topics)
extract_topics(text, max_topics) ==
    IF Strip(text) = <<>> THEN <<>>
    ELSE LET topic_scores == ScoreTopics(Lower(text))
             order == SortedIndices([k \in 1..Len(topic_scores) |->
                                        Rat(topic_scores[k].score, 1)])
             top_topics == Prefix(order, max_topics)
         IN  [k \in 1..Len(top_topics) |-> topic_scores[top_topics[k]].topic]

\* an overlap that takes two empty tuples for disjoint
topic_overlap_strict(topics1, topics2) ==
    IF topics1 = <<>> \/ topics2 = <<>> THEN Rat(0, 1)
    ELSE LET set1 == {topics1[k] : k \in 1..Len(topics1)}
             set2 == {topics2[k] : k \in 1..Len(topics2)}
             union == Cardinality(set1 \cup set2)
         IN  IF union > 0 THEN Rat(Cardinality(set1 \cap set2), union)
             ELSE Rat(0, 1)

\* topic_overlap(topics1, topics2)
topic_overlap(topics1, topics2) ==
    IF topics1 = <<>> /\ topics2 = <<>> THEN Rat(1, 1)
    ELSE IF topics1 = <<>> \/ topics2 = <<>> THEN Rat(0, 1)
    ELSE LET set1 == {topics1[k] : k \in 1..Len(topics1)}
             set2 == {topics2[k] : k \in 1..Len(topics2)}
             union == Cardinality(set1 \cup set2)
         IN  IF union > 0 THEN Rat(Cardinality(set1 \cap set2), union)
             ELSE Rat(0, 1)

MaxTopicWords == 3  \* words in a text given to extract_topics
MaxTopics == 2      \* largest max_topics
MaxTags == 2        \* tags in a tuple given to topic_overlap

\* the words of those texts: keywords, one in capitals, a keyword with a
\* letter behind it, a word that is no keyword
TopicWords == {<<"n", "f", "t">>, <<"u", "s", "d", "t">>, <<"f", "e", "d">>, <<"s", "e", "n", "a", "t", "e">>, <<"N", "A", "S", "A">>, <<"n", "f", "t", "s">>, <<"a">>}

RECURSIVE WordSeqs(_)
WordSeqs(k) ==
    IF k = 0 THEN {<<>>}
    ELSE {Append(ws, w) : ws \in WordSeqs(k - 1), w \in TopicWords}

TopicTexts ==
    {JoinSpace(ws) : ws \in UNION {WordSeqs(k) : k \in 0..MaxTopicWords}}
        \cup {<<" ", "\n">>}

MaxTokens == 3      \* tokens in a list given to detokenize

\* the tokens of those lists: words, one with a capital inside, closing and
\* opening punctuation, the quote that is both
TokenChoices == {<<"a">>, <<"b", "A">>, <<".">>, <<",">>, <<"(">>, <<")">>, <<"\"">>}

RECURSIVE TokenLists(_)
TokenLists(k) ==
    IF k = 0 THEN {<<>>}
    ELSE {Append(ts, t) : ts \in TokenLists(k - 1), t \in TokenChoices}

Tags == {"ai", "tech", "crypto"}

RECURSIVE TagTuples(_)
TagTuples(k) ==
    IF k = 0 THEN {<<>>}
    ELSE {Append(ts, t) : ts \in TagTuples(k - 1), t \in Tags}

(***************************************************************************)
(* Part 6.  track/db.py: the articles table, and get_articles_for_display  *)
(* of pipeline.py.  The table is the sequence of its rows in rowid order;  *)
(* a row is [id, source_id, url, fetched_at, analyzed_at], analyzed_at is  *)
(* None or Some(time).  sqlite_utils gives the table operations: upsert    *)
(* inserts the record or, when a row has its primary key, updates that row *)
(* in place; a violated constraint is sqlite3.IntegrityError; Table.get    *)
(* raises NotFoundError, which is no sqlite3.Error, when no row has the    *)
(* key.                                                                    *)
(***************************************************************************)
MaxArticles == 2    \* article ids that get stored

AllArticleIds == <<"a1", "a2", "a3", "a4">>
ArticleIds == {AllArticleIds[i] : i \in 1..MaxArticles}

\* the urls of the articles stored
Urls == {"u1", "u2"}

\* an id no article is ever stored under
AbsentId == "does-not-exist"

\* the dictionaries handed to store_article
ArticleData ==
    [id : ArticleIds, source_id : {"s1"}, url : Urls,
     fetched_at : 1..MaxTime, analyzed_at : {None, Some(1)}]

Err(operation) == [kind |-> "Err", operation |-> operation]
Raised(error) == [kind |-> "raise", error |-> error]

\* the positions of the rows with the primary key id
RowsWithId(table, id) == {i \in 1..Len(table) : table[i].id = id}

\* the column url is UNIQUE: a row other than row i has this url
UrlTaken(table, url, i) ==
    \E j \in 1..Len(table) : j # i /\ table[j].url = url

\* db["articles"].upsert(article_data, pk="id"), but every record inserted
UpsertAppend(table, article_data) ==
    IF UrlTaken(table, article_data.url, 0)
    THEN [kind |-> "IntegrityError", table |-> table]
    ELSE [kind |-> "done", table |-> Append(table, article_data)]

\* db["articles"].upsert(article_data, pk="id")
Upsert(table, article_data) ==
    LET at == RowsWithId(table, article_data.id)
    IN  IF at = {}
        THEN IF UrlTaken(table, article_data.url, 0)
             THEN [kind |-> "IntegrityError", table |-> table]
             ELSE [kind |-> "done", table |-> Append(table, article_data)]
        ELSE LET i == CHOOSE k \in at : TRUE
             IN  IF UrlTaken(table, article_data.url, i)
                 THEN [kind |-> "IntegrityError", table |-> table]
                 ELSE [kind |-> "done",
                       table |-> [table EXCEPT ![i] = article_data]]

\* store_article(db, article_data): what it returns and the table it leaves
store_article(table, ok, article_data) ==
    IF ~ok THEN [result |-> Err("write"), table |-> table]
    ELSE LET done == Upsert(table, article_data)
         IN  IF done.kind = "done"
             THEN [result |-> Ok(None), table |-> done.table]
             ELSE [result |-> Err("write"), table |-> table]

\* db["articles"].get(article_id)
TableGet(table, article_id) ==
    LET at == RowsWithId(table, article_id)
    IN  IF at = {} THEN [kind |-> "NotFoundError", row |-> None]
        ELSE [kind |-> "row", row |-> Some(table[CHOOSE k \in at : TRUE])]

\* get_article(db, article_id): only sqlite3.Error is caught
get_article(table, ok, article_id) ==
    IF ~ok THEN Err("read")
    ELSE LET got == TableGet(table, article_id)
         IN  IF got.kind = "NotFoundError" THEN Raised("NotFoundError")
             ELSE Ok(got.row)

RECURSIVE SortByFetchedAtDesc(_)
\* articles.sort(key=fetched_at, reverse=True): stable, equal keys keep their order
SortByFetchedAtDesc(rows) ==
    IF rows = <<>> THEN <<>>
    ELSE LET n == Len(rows)
             rest == SortByFetchedAtDesc(SubSeq(rows, 1, n - 1))
             e == rows[n]
             k == Cardinality({i \in 1..Len(rest) : rest[i].fetched_at >= e.fetched_at})
         IN  SubSeq(rest, 1, k) \o <<e>> \o SubSeq(rest, k + 1, Len(rest))

\* rows_where("source_id = ?", [source_id]), or rows when source_id is None
RowsWhere(table, source_id) ==
    IF source_id = None THEN table
    ELSE SelectSeq(table, LAMBDA row : row.source_id = source_id[1])

\* get_recent_articles(db, limit, source_id)
get_recent_articles(table, ok, limit, source_id) ==
    IF ~ok THEN Err("read")
    ELSE Ok(Prefix(SortByFetchedAtDesc(RowsWhere(table, source_id)), limit))

\* db_dict_to_article(row): the Article built from a row
db_dict_to_article(row) ==
    [raw |-> [id |-> row.id, source_id |-> row.source_id, url |-> row.url,
              fetched_at |-> row.fetched_at],
     \* datetime.now() is later than every time stored
     analyzed_at |-> IF row.analyzed_at # None THEN row.analyzed_at[1]
                     ELSE MaxTime + 1]

\* the comprehension [db_dict_to_article(row) for row in rows if row.get("analyzed_at")]
AnalyzedArticles(rows) ==
    LET kept == SelectSeq(rows, LAMBDA row : row.analyzed_at # None)
    IN  [i \in 1..Len(kept) |-> db_dict_to_article(kept[i])]

\* get_articles_for_display(db, limit)
get_articles_for_display(table, ok, limit) ==
    LET got == get_recent_articles(table, ok, limit, None)
    IN  IF got.kind = "Err" THEN <<>>
        ELSE AnalyzedArticles(got.value)

\* the limits handed to get_recent_articles and get_articles_for_display
ArticleLimits == 0..(MaxArticles + 1)

(***************************************************************************)
(* Part 7.  ingest/sources.py: the sources file and the list of sources.   *)
(* The file is None while it does not exist, else Some(document) with the  *)
(* document that yaml.safe_load reads from it.  A Source is the record of  *)
(* its validated fields; ids, names and urls are texts.                    *)
(***************************************************************************)
MaxSources == 4     \* sources the list may hold

DEFAULT_SOURCES ==
    <<[id |-> <<"h", "n">>, name |-> <<"H", "a", "c", "k", "e", "r", " ", "N", "e", "w", "s">>,
       url |-> <<"h", "t", "t", "p", "s", ":", "/", "/", "h", "n", "r", "s", "s", ".", "o", "r", "g", "/", "f", "r", "o", "n", "t", "p", "a", "g", "e">>,
       source_type |-> "rss", bias_rating |-> Rat(0, 10), reliability_score |-> Rat(70, 100)],
      [id |-> <<"l", "o", "b", "s", "t", "e", "r", "s">>,
       name |-> <<"L", "o", "b", "s", "t", "e", ".", "r", "s">>,
       url |-> <<"h", "t", "t", "p", "s", ":", "/", "/", "l", "o", "b", "s", "t", "e", ".", "r", "s", "/", "r", "s", "s">>,
       source_type |-> "rss", bias_rating |-> Rat(0, 10), reliability_score |-> Rat(75, 100)],
      [id |-> <<"a", "e", "o", "n">>, name |-> <<"A", "e", "o", "n">>,
       url |-> <<"h", "t", "t", "p", "s", ":", "/", "/", "a", "e", "o", "n", ".", "c", "o", "/", "f", "e", "e", "d", ".", "r", "s", "s">>,
       source_type |-> "rss", bias_rating |-> Rat(-1, 10), reliability_score |-> Rat(85, 100)]>>

ConfigErr(key) == [kind |-> "Err", key |-> key]

StartsWith(text, prefix) ==
    Len(text) >= Len(prefix) /\ SubSeq(text, 1, Len(prefix)) = prefix

\* HttpUrl: the scheme is http or https and a host follows it
IsHttpUrl(url) ==
    \E scheme \in {<<"h", "t", "t", "p", ":", "/", "/">>,
                   <<"h", "t", "t", "p", "s", ":", "/", "/">>} :
        StartsWith(url, scheme) /\ Len(url) > Len(scheme)

\* Source(**fields): the validated Source, or pydantic's ValidationError, a ValueError
Source(fields) ==
    IF /\ Len(fields.name) >= 1
       /\ Len(fields.name) <= 100
       /\ IsHttpUrl(fields.url)
       /\ fields.source_type \in {"rss", "atom", "hn_api", "lobsters"}
       /\ RatLess(Rat(-11, 10), fields.bias_rating)
       /\ RatLess(fields.bias_rating, Rat(11, 10))
       /\ RatLess(Rat(-1, 10), fields.reliability_score)
       /\ RatLess(fields.reliability_score, Rat(11, 10))
    THEN [kind |-> "ok", value |-> fields]
    ELSE [kind |-> "ValueError", value |-> fields]

\* the documents the sources file may hold
DefaultDocument == [yaml |-> "sources", items |-> DEFAULT_SOURCES]

BrokenEntry == [DEFAULT_SOURCES[2] EXCEPT !.url = <<"l", "o", "b", "s", "t", "e", ".", "r", "s">>]

Documents ==
    {[yaml |-> "invalid", items |-> <<>>],      \* no YAML
     [yaml |-> "null", items |-> <<>>],         \* an empty file
     [yaml |-> "list", items |-> <<>>],         \* no mapping
     [yaml |-> "map", items |-> <<>>],          \* a mapping without the key sources
     [yaml |-> "scalar", items |-> <<>>],       \* sources: is no list
     DefaultDocument,
     [yaml |-> "sources", items |-> <<DEFAULT_SOURCES[3]>>],
     [yaml |-> "sources", items |-> <<DEFAULT_SOURCES[1], BrokenEntry>>]}

\* _create_default_sources(sources_path): what it returns and the file it leaves;
\* an OSError comes before the file is written or from chmod after it
create_default_sources(file, ok) ==
    IF ok THEN {[result |-> Ok(None), file |-> Some(DefaultDocument)]}
    ELSE {[result |-> ConfigErr("sources"), file |-> file],
          [result |-> ConfigErr("sources"), file |-> Some(DefaultDocument)]}

RECURSIVE LoadLoop(_, _, _)
\* the loop over sources_data: the Sources, or the Err of the first entry refused
LoadLoop(items, i, sources) ==
    IF i > Len(items) THEN Ok(sources)
    ELSE LET made == Source(items[i])
         IN  IF made.kind = "ok" THEN LoadLoop(items, i + 1, Append(sources, made.value))
             ELSE ConfigErr("sources[i]")

\* lines 66-97 of load_sources: the file is read and checked
ReadSources(file, ok) ==
    IF ~ok \/ file = None THEN ConfigErr("sources")
    ELSE LET data == file[1]
         IN  CASE data.yaml = "invalid" -> ConfigErr("sources")
               [] data.yaml = "null" -> Ok(<<>>)
               [] data.yaml \in {"list", "map", "scalar"} -> ConfigErr("sources")
               [] OTHER -> LoadLoop(data.items, 1, <<>>)

\* load_sources(sources_path): what it returns or raises, and the file it leaves.
\* err is the function of core/errors.py, and isinstance(create_result, err)
\* raises TypeError whatever create_result is.
load_sources(file, ok) ==
    IF file = None
    THEN {[result |-> Raised("TypeError"), file |-> created.file] :
             created \in create_default_sources(file, ok)}
    ELSE {[result |-> ReadSources(file, ok), file |-> file]}

\* name.lower().replace(" ", "-")[:20]
SourceIdOf(name) ==
    LET lowered == Lower(name)
    IN  Prefix([i \in 1..Len(lowered) |-> IF lowered[i] = " " THEN "-" ELSE lowered[i]],
               20)

\* add_source without its check for a duplicate id
add_source_unchecked(sources, name, url, source_type) ==
    LET made == Source([id |-> SourceIdOf(name), name |-> name, url |-> url,
                        source_type |-> source_type, bias_rating |-> Rat(0, 10),
                        reliability_score |-> Rat(5, 10)])
    IN  IF made.kind = "ok"
        THEN [result |-> Ok(Append(sources, made.value)), sources |-> sources]
        ELSE [result |-> ConfigErr("source"), sources |-> sources]

\* add_source(sources, name, url, source_type): what it returns, and the list
\* passed in as the call leaves it
add_source(sources, name, url, source_type) ==
    LET source_id == SourceIdOf(name)
    IN  IF \E i \in 1..Len(sources) : sources[i].id = source_id
        THEN [result |-> ConfigErr("source"), sources |-> sources]
        ELSE LET made == Source([id |-> source_id, name |-> name, url |-> url,
                                 source_type |-> source_type,
                                 bias_rating |-> Rat(0, 10),
                                 reliability_score |-> Rat(5, 10)])
             IN  IF made.kind = "ok"
                 THEN [result |-> Ok(Append(sources, made.value)), sources |-> sources]
                 ELSE [result |-> ConfigErr("source"), sources |-> sources]

\* remove_source(sources, source_id)
remove_source(sources, source_id) ==
    LET new_sources == SelectSeq(sources, LAMBDA s : s.id # source_id)
    IN  IF Len(new_sources) = Len(sources)
        THEN [result |-> ConfigErr("source"), sources |-> sources]
        ELSE [result |-> Ok(new_sources), sources |-> sources]

\* the names, urls and types handed to add_source
SourceNames ==
    {<<"a", "e", "o", "n">>, <<"A", " ", "b">>, <<"a", "-", "b">>, <<>>,
     <<"a", " ", "b", " ", "a", " ", "b", " ", "a", " ", "b", " ", "a", " ", "b", " ", "a", " ", "b", " ", "d">>,
     <<"a", " ", "b", " ", "a", " ", "b", " ", "a", " ", "b", " ", "a", " ", "b", " ", "a", " ", "b", " ", "e">>}

SourceUrls == {<<"h", "t", "t", "p", ":", "/", "/", "a">>, <<"f", "t", "p", ":", "/", "/", "a">>}

SourceTypes == {"rss", "bogus"}

\* the ids handed to remove_source
RemovedIds == {SourceIdOf(name) : name \in SourceNames} \cup {<<"h", "n">>}

(***************************************************************************)
(* Initial state: nothing built, no call made.                             *)
(***************************************************************************)
InitMarkov ==
    /\ words = <<>>
    /\ ngram = 0
    /\ built = NotBuilt
    /\ entropy = None
    /\ gArgs = None
    /\ gCall = 0
    /\ gPc = "idle"
    /\ gN = 0
    /\ gWords = <<>>
    /\ gRng = 0
    /\ gLeft = 0
    /\ gOut = <<>>

\* the topic lists of the articles that get read
TopicLists == {<<>>, <<"ai">>, <<"tech", "rust">>}

MaxMerge == 2       \* chains handed to merge_chains

\* the chains handed to merge_chains: built from texts of up to two pieces
MergeInputs ==
    {build_chain(JoinSpace(cs), n).chain :
        cs \in ChunkSeqs(0) \cup ChunkSeqs(1) \cup ChunkSeqs(2), n \in 1..2}

RECURSIVE ChainLists(_)
ChainLists(k) ==
    IF k = 0 THEN {<<>>}
    ELSE {Append(cs, c) : cs \in ChainLists(k - 1), c \in MergeInputs}

\* the limits handed to get_read_history
HistoryLimits == 0..(MaxHistory + 1)

\* thresholds, in percent
ThresholdPercents == {25, 60, 75}

InitDrift ==
    /\ read_history = <<>>
    /\ dbOk = TRUE
    /\ driftCall = None
    /\ driftResult = DriftOutcome("none", NoReport)

NoCall == [fn |-> "none"]
NoResult == [kind |-> "none"]

InitCalls ==
    /\ call = NoCall
    /\ result = NoResult

InitStore == articles = <<>>

InitSources ==
    /\ sources_file = None
    /\ fsOk = TRUE
    /\ source_list = DEFAULT_SOURCES

Init == InitMarkov /\ InitDrift /\ InitCalls /\ InitStore /\ InitSources

(***************************************************************************)
(* Actions of the Markov engine.                                           *)
(***************************************************************************)
\* chain = build_chain(text, n)
BuildChain ==
    /\ built = NotBuilt
    /\ \E text \in Texts, n \in 0..MaxN :
          /\ words' = tokenize(text)
          /\ ngram' = n
          /\ built' = build_chain(text, n)
    /\ UNCHANGED <<entropy, gArgs, gCall, gPc, gN, gWords, gRng, gLeft, gOut>>
    /\ UNCHANGED <<driftVars, callVars, storeVars, sourceVars>>

\* chain_entropy(chain) on the chain that was built
ChainEntropy ==
    /\ built.kind = "ok"
    /\ entropy = None
    /\ gCall = 0
    /\ entropy' = Some(chain_entropy(built.chain))
    /\ UNCHANGED <<words, ngram, built, gArgs, gCall, gPc, gN, gWords, gRng, gLeft, gOut>>
    /\ UNCHANGED <<driftVars, callVars, storeVars, sourceVars>>

\* the caller calls generate(chain, seed, max_words, rng)
GenerateCall ==
    /\ built.kind = "ok"
    /\ gCall = 0
    /\ \E seed \in Seeds, max_words \in 0..MaxWords, rng \in RngArgs :
          gArgs' = [seed |-> seed, max_words |-> max_words, rng |-> rng]
    /\ gCall' = 1
    /\ gPc' = "enter"
    /\ UNCHANGED <<words, ngram, built, entropy, gN, gWords, gRng, gLeft, gOut>>
    /\ UNCHANGED <<driftVars, callVars, storeVars, sourceVars>>

\* lines 81-91: the empty-chain check, the random source, the seed
GenerateEnter ==
    /\ gPc = "enter"
    /\ IF EmptyChainRaises(built.chain, gArgs.seed)
       THEN /\ gPc' = "raised"
            /\ gOut' = Append(gOut, [kind |-> "ValueError", text |-> <<>>, words |-> <<>>])
            /\ UNCHANGED <<gN, gWords, gRng, gLeft>>
       ELSE \E fresh \in RngStates :
            LET rng == RngOrFresh(gArgs.rng, fresh)
                pick == gArgs.seed = None
                seed == IF pick THEN RngChoice(rng, ChainKeys(built.chain))
                        ELSE gArgs.seed[1]
            IN  /\ gRng' = IF pick THEN RngNext(rng) ELSE rng
                /\ gN' = Len(seed)
                /\ gWords' = seed
                /\ gLeft' = LoopCount(gArgs.max_words, Len(seed))
                /\ gPc' = "loop"
                /\ gOut' = gOut
    /\ UNCHANGED <<words, ngram, built, entropy, gArgs, gCall>>
    /\ UNCHANGED <<driftVars, callVars, storeVars, sourceVars>>

\* lines 93-98: one iteration of the loop, or its end
GenerateLoop ==
    /\ gPc = "loop"
    /\ IF gLeft = 0
       THEN /\ gPc' = "return"
            /\ UNCHANGED <<gWords, gRng, gLeft>>
       ELSE LET r == LoopBody(built.chain, gWords, gN, gRng)
            IN  /\ gWords' = r.words
                /\ gRng' = r.rng
                /\ gPc' = IF r.brk THEN "return" ELSE "loop"
                /\ gLeft' = IF r.brk THEN gLeft ELSE gLeft - 1
    /\ UNCHANGED <<words, ngram, built, entropy, gArgs, gCall, gN, gOut>>
    /\ UNCHANGED <<driftVars, callVars, storeVars, sourceVars>>

\* line 100: return _detokenize(words)
GenerateReturn ==
    /\ gPc = "return"
    /\ gOut' = Append(gOut, [kind |-> "ok", text |-> detokenize(gWords), words |-> gWords])
    /\ gPc' = "done"
    /\ UNCHANGED <<words, ngram, built, entropy, gArgs, gCall, gN, gWords, gRng, gLeft>>
    /\ UNCHANGED <<driftVars, callVars, storeVars, sourceVars>>

\* the caller calls generate a second time with the same chain, seed and
\* max_words and a random source in the same initial state
GenerateAgain ==
    /\ gCall = 1
    /\ gPc \in {"done", "raised"}
    /\ gCall' = 2
    /\ gPc' = "enter"
    /\ UNCHANGED <<words, ngram, built, entropy, gArgs, gN, gWords, gRng, gLeft, gOut>>
    /\ UNCHANGED <<driftVars, callVars, storeVars, sourceVars>>

(***************************************************************************)
(* Actions of the read history and of drift detection.                     *)
(***************************************************************************)
\* record_read(db, article_id, read_at, topics): one row more, or Err
RecordRead ==
    /\ Len(read_history) < MaxHistory
    /\ \E read_at \in 1..MaxTime, topics \in TopicLists :
          read_history' =
              IF dbOk
              THEN Append(read_history,
                          [article_id |-> "a1", read_at |-> read_at,
                           topics |-> JsonDumps(topics)])
              ELSE read_history
    /\ UNCHANGED <<dbOk, driftCall, driftResult>>
    /\ UNCHANGED <<markovVars, callVars, storeVars, sourceVars>>

\* the database starts or stops failing (locked, unreadable, closed)
DbFault ==
    /\ dbOk' = ~dbOk
    /\ UNCHANGED <<read_history, driftCall, driftResult>>
    /\ UNCHANGED <<markovVars, callVars, storeVars, sourceVars>>

\* detect_topic_drift(db, window_size, threshold)
DetectTopicDrift ==
    /\ \E window_size \in 1..MaxWindow, percent \in ThresholdPercents :
          /\ driftCall' = Some([window_size |-> window_size, percent |-> percent,
                                dbOk |-> dbOk, rows |-> read_history])
          /\ driftResult' \in
                detect_topic_drift(get_read_history(read_history, dbOk, window_size),
                                   window_size, percent)
    /\ UNCHANGED <<read_history, dbOk>>
    /\ UNCHANGED <<markovVars, callVars, storeVars, sourceVars>>

(***************************************************************************)
(* Calls of the functions without state: one call in a behaviour.          *)
(***************************************************************************)
\* generate_tldr(text, max_words, n)
GenerateTldr ==
    /\ call = NoCall
    /\ \E text \in Texts, max_words \in 0..MaxWords, n \in 0..MaxN :
          /\ call' = [fn |-> "generate_tldr", text |-> text,
                      max_words |-> max_words, n |-> n]
          /\ result' \in generate_tldr(text, max_words, n)
    /\ UNCHANGED <<markovVars, driftVars, storeVars, sourceVars>>

\* merge_chains(chains)
MergeChains ==
    /\ call = NoCall
    /\ \E chains \in UNION {ChainLists(k) : k \in 0..MaxMerge} :
          /\ call' = [fn |-> "merge_chains", chains |-> chains]
          /\ result' = [kind |-> "ok", chain |-> merge_chains(chains)]
    /\ UNCHANGED <<markovVars, driftVars, storeVars, sourceVars>>

\* extractive_summary(text, max_sentences)
ExtractiveSummary ==
    /\ call = NoCall
    /\ \E text \in SummaryTexts, max_sentences \in 0..MaxPick :
          /\ call' = [fn |-> "extractive_summary", text |-> text,
                      max_sentences |-> max_sentences]
          /\ result' = [kind |-> "ok", text |-> extractive_summary(text, max_sentences)]
    /\ UNCHANGED <<markovVars, driftVars, storeVars, sourceVars>>

\* smart_tldr(text, max_words)
SmartTldr ==
    /\ call = NoCall
    /\ \E text \in SummaryTexts \cup LongTexts, max_words \in 0..MaxWords :
          /\ call' = [fn |-> "smart_tldr", text |-> text, max_words |-> max_words]
          /\ result' \in smart_tldr(text, max_words)
    /\ UNCHANGED <<markovVars, driftVars, storeVars, sourceVars>>

\* compute_signal_score(text)
ComputeSignalScore ==
    /\ call = NoCall
    /\ \E text \in ScoredTexts :
          /\ call' = [fn |-> "compute_signal_score", text |-> text]
          /\ result' = compute_signal_score(text)
    /\ UNCHANGED <<markovVars, driftVars, storeVars, sourceVars>>

\* extract_topics(text, max_topics)
ExtractTopics ==
    /\ call = NoCall
    /\ \E text \in TopicTexts, max_topics \in 0..MaxTopics :
          /\ call' = [fn |-> "extract_topics", text |-> text,
                      max_topics |-> max_topics]
          /\ result' = [kind |-> "ok", topics |-> extract_topics(text, max_topics)]
    /\ UNCHANGED <<markovVars, driftVars, storeVars, sourceVars>>

\* topic_overlap(topics1, topics2)
TopicOverlap ==
    /\ call = NoCall
    /\ \E topics1, topics2 \in UNION {TagTuples(k) : k \in 0..MaxTags} :
          /\ call' = [fn |-> "topic_overlap", topics1 |-> topics1,
                      topics2 |-> topics2]
          /\ result' = [kind |-> "ok", value |-> topic_overlap(topics1, topics2)]
    /\ UNCHANGED <<markovVars, driftVars, storeVars, sourceVars>>

\* _detokenize(tokens)
Detokenize ==
    /\ call = NoCall
    /\ \E tokens \in UNION {TokenLists(k) : k \in 0..MaxTokens} :
          /\ call' = [fn |-> "detokenize", tokens |-> tokens]
          /\ result' = [kind |-> "ok", text |-> detokenize(tokens)]
    /\ UNCHANGED <<markovVars, driftVars, storeVars, sourceVars>>

\* get_read_history(db, limit) on the table as it is
GetReadHistory ==
    /\ \E limit \in HistoryLimits :
          /\ call' = [fn |-> "get_read_history", limit |-> limit,
                      dbOk |-> dbOk, rows |-> read_history]
          /\ result' = get_read_history(read_history, dbOk, limit)
    /\ UNCHANGED <<markovVars, driftVars, storeVars, sourceVars>>

(***************************************************************************)
(* Actions of the articles table.                                          *)
(***************************************************************************)
\* store_article(db, article_data)
StoreArticle ==
    /\ \E article_data \in ArticleData :
          LET done == store_article(articles, dbOk, article_data)
          IN  /\ call' = [fn |-> "store_article", article_data |-> article_data,
                          dbOk |-> dbOk, table |-> articles]
              /\ result' = done.result
              /\ articles' = done.table
    /\ UNCHANGED <<markovVars, driftVars, sourceVars>>

\* get_article(db, article_id)
GetArticle ==
    /\ \E article_id \in ArticleIds \cup {AbsentId} :
          /\ call' = [fn |-> "get_article", article_id |-> article_id,
                      dbOk |-> dbOk, table |-> articles]
          /\ result' = get_article(articles, dbOk, article_id)
    /\ UNCHANGED <<markovVars, driftVars, storeVars, sourceVars>>

\* get_recent_articles(db, limit, source_id)
GetRecentArticles ==
    /\ \E limit \in ArticleLimits, source_id \in {None, Some("s1"), Some("s2")} :
          /\ call' = [fn |-> "get_recent_articles", limit |-> limit,
                      source_id |-> source_id, dbOk |-> dbOk, table |-> articles]
          /\ result' = get_recent_articles(articles, dbOk, limit, source_id)
    /\ UNCHANGED <<markovVars, driftVars, storeVars, sourceVars>>

\* get_articles_for_display(db, limit)
GetArticlesForDisplay ==
    /\ \E limit \in ArticleLimits :
          /\ call' = [fn |-> "get_articles_for_display", limit |-> limit,
                      dbOk |-> dbOk, table |-> articles]
          /\ result' = [kind |-> "list",
                        value |-> get_articles_for_display(articles, dbOk, limit)]
    /\ UNCHANGED <<markovVars, driftVars, storeVars, sourceVars>>

(***************************************************************************)
(* Actions of the sources file and of the list of sources.                 *)
(***************************************************************************)
\* load_sources(sources_path)
LoadSources ==
    /\ \E done \in load_sources(sources_file, fsOk) :
          /\ call' = [fn |-> "load_sources", file |-> sources_file, fsOk |-> fsOk,
                      after |-> done.file]
          /\ result' = done.result
          /\ sources_file' = done.file
    /\ UNCHANGED <<fsOk, source_list>>
    /\ UNCHANGED <<markovVars, driftVars, storeVars>>

\* the user edits or deletes the sources file
EditFile ==
    /\ sources_file' \in {None} \cup {Some(document) : document \in Documents}
    /\ UNCHANGED <<fsOk, source_list>>
    /\ UNCHANGED <<markovVars, driftVars, callVars, storeVars>>

\* the file system starts or stops failing (read-only, no permission)
FsFault ==
    /\ fsOk' = ~fsOk
    /\ UNCHANGED <<sources_file, source_list>>
    /\ UNCHANGED <<markovVars, driftVars, callVars, storeVars>>

\* add_source(source_list, name, url, source_type); the caller goes on with the
\* list returned, or with the list it passed when the call returns Err
AddSource ==
    /\ Len(source_list) < MaxSources
    /\ \E name \in SourceNames, url \in SourceUrls, source_type \in SourceTypes :
          LET done == add_source(source_list, name, url, source_type)
          IN  /\ call' = [fn |-> "add_source", sources |-> source_list, name |-> name,
                          url |-> url, source_type |-> source_type,
                          after |-> done.sources]
              /\ result' = done.result
              /\ source_list' = IF done.result.kind = "Ok" THEN done.result.value
                            ELSE done.sources
    /\ UNCHANGED <<sources_file, fsOk>>
    /\ UNCHANGED <<markovVars, driftVars, storeVars>>

\* remove_source(sources, source_id)
RemoveSource ==
    /\ \E source_id \in RemovedIds :
          LET done == remove_source(source_list, source_id)
          IN  /\ call' = [fn |-> "remove_source", sources |-> source_list,
                          source_id |-> source_id, after |-> done.sources]
              /\ result' = done.result
              /\ source_list' = IF done.result.kind = "Ok" THEN done.result.value
                            ELSE done.sources
    /\ UNCHANGED <<sources_file, fsOk>>
    /\ UNCHANGED <<markovVars, driftVars, storeVars>>

NextDrift ==
    \/ RecordRead
    \/ DbFault
    \/ DetectTopicDrift

NextMarkov ==
    \/ BuildChain
    \/ ChainEntropy
    \/ GenerateCall
    \/ GenerateEnter
    \/ GenerateLoop
    \/ GenerateReturn
    \/ GenerateAgain

Next == NextMarkov

Spec == Init /\ [][Next]_vars

SpecDrift == Init /\ [][NextDrift]_vars

NextHistory ==
    \/ RecordRead
    \/ DbFault
    \/ GetReadHistory

SpecHistory == Init /\ [][NextHistory]_vars

NextStore ==
    \/ StoreArticle
    \/ GetArticle
    \/ GetRecentArticles
    \/ GetArticlesForDisplay
    \/ DbFault

SpecStore == Init /\ [][NextStore]_vars

NextSourceFile ==
    \/ LoadSources
    \/ EditFile
    \/ FsFault

SpecSourceFile == Init /\ [][NextSourceFile]_vars

NextSourceList ==
    \/ AddSource
    \/ RemoveSource

SpecSourceList == Init /\ [][NextSourceList]_vars

NextCalls ==
    \/ GenerateTldr
    \/ MergeChains
    \/ ExtractiveSummary
    \/ SmartTldr
    \/ ComputeSignalScore
    \/ ExtractTopics
    \/ TopicOverlap
    \/ Detokenize

SpecCalls == Init /\ [][NextCalls]_vars

(***************************************************************************)
(* Helpers of the properties.                                              *)
(***************************************************************************)
Range(seq) == {seq[i] : i \in 1..Len(seq)}

Occurrences(seq, x) == Cardinality({i \in 1..Len(seq) : seq[i] = x})

LastOut == gOut[Len(gOut)]

\* the positions of the text's tokens at which state s occurs with a successor
Positions(s) ==
    {i \in 1..(Len(words) - ngram) : SubSeq(words, i, i + ngram - 1) = s}

\* the j-th smallest element of a set of numbers
Nth(S, j) == CHOOSE i \in S : Cardinality({h \in S : h <= i}) = j

\* the states with more than one successor
MultiStates(chain) == {k \in 1..Len(chain) : Len(chain[k].words) > 1}

RECURSIVE PlogSum(_, _)
\* sum over the distinct successors x in S of count(x) * (log2 total - log2 count(x))
PlogSum(ws, S) ==
    IF S = {} THEN 0
    ELSE LET x == CHOOSE x \in S : TRUE
             c == Occurrences(ws, x)
         IN  c * (Log2Micro(Len(ws)) - Log2Micro(c)) + PlogSum(ws, S \ {x})

\* Shannon entropy of the empirical distribution of a successor list
Shannon(ws) == Rat(PlogSum(ws, Range(ws)), Len(ws))

RECURSIVE ShannonSum(_, _)
\* sum of the Shannon entropies of the states whose indices are in K
ShannonSum(chain, K) ==
    IF K = {} THEN RatZero
    ELSE LET k == CHOOSE k \in K : TRUE
         IN  RatAdd(Shannon(chain[k].words), ShannonSum(chain, K \ {k}))

(***************************************************************************)
(* C1: the token sequence generate builds has at most max_words tokens,    *)
(* for every non-empty chain, seed and word budget.                        *)
(***************************************************************************)
C1_TokensWithinBudget ==
    \A k \in 1..Len(gOut) :
        gOut[k].kind = "ok" => Len(gOut[k].words) <= gArgs.max_words

C8_ChainIsTransitionTable ==
    (built.kind = "ok" /\ Len(words) > ngram) =>
        LET chain == built.chain
        IN  /\ Range(ChainKeys(chain)) =
                  {SubSeq(words, i, i + ngram - 1) : i \in 1..(Len(words) - ngram)}
            /\ \A k, h \in 1..Len(chain) : chain[k].key = chain[h].key => k = h
            /\ \A k \in 1..Len(chain) :
                  LET pos == Positions(chain[k].key)
                      succ == chain[k].words
                  IN  /\ Len(succ) = Cardinality(pos)
                      /\ \A j \in 1..Len(succ) : succ[j] = words[Nth(pos, j) + ngram]
                      /\ \A t \in Range(words) :
                            Occurrences(succ, t) =
                                Cardinality({i \in pos : words[i + ngram] = t})

\* a chain of several states was built in which one state has the same
\* successor twice
C8_Witness ==
    /\ built.kind = "ok"
    /\ Len(built.chain) >= 2
    /\ \E k \in 1..Len(built.chain) :
          \E i, j \in 1..Len(built.chain[k].words) :
              i < j /\ built.chain[k].words[i] = built.chain[k].words[j]

(***************************************************************************)
(* C9: generate stops as soon as the last n tokens (n the length of the    *)
(* seed) are not a state of the chain and returns the detokenized tokens   *)
(* produced so far without raising; a supplied seed that is not a state    *)
(* yields the seed alone.                                                  *)
(***************************************************************************)
DeadEnd == ~KeyIn(built.chain, LastN(gWords, gN))

C9_StopsAtDeadEnd ==
    /\ [][(gPc = "loop" /\ gLeft > 0 /\ DeadEnd)
            => (gPc' = "return" /\ gWords' = gWords)]_vars
    /\ [](gPc \in {"loop", "return", "done"} =>
            /\ gArgs.seed # None => gN = Len(gArgs.seed[1])
            /\ Len(gWords) >= gN)
    /\ [](gPc = "raised" => built.chain = <<>>)
    /\ [](gPc = "done" =>
            /\ LastOut.kind = "ok"
            /\ LastOut.words = gWords
            /\ LastOut.text = detokenize(gWords)
            /\ (Len(gWords) < gArgs.max_words => DeadEnd)
            /\ (gArgs.seed # None /\ ~KeyIn(built.chain, gArgs.seed[1]))
                  => gWords = gArgs.seed[1])

\* a call that appended tokens and then stopped at a dead end below its budget
C9_Witness ==
    /\ gPc = "done"
    /\ Len(gWords) > gN
    /\ Len(gWords) < gArgs.max_words
    /\ DeadEnd

(***************************************************************************)
(* C10: two calls of generate with the same chain, seed (or no seed) and   *)
(* max_words and with supplied random sources in the same initial state    *)
(* return the same string.                                                 *)
(***************************************************************************)
C10_Reproducible ==
    (Len(gOut) = 2 /\ gArgs.rng # None) => gOut[1] = gOut[2]

\* two completed calls without a seed, with a supplied source, that made
\* random choices among several keys and appended tokens
C10_Witness ==
    /\ Len(gOut) = 2
    /\ gArgs.rng # None
    /\ gArgs.seed = None
    /\ gOut[2].kind = "ok"
    /\ Len(built.chain) >= 2
    /\ Len(gOut[2].words) > gN

(***************************************************************************)
(* Helpers of the drift properties: what the last call was given.          *)
(***************************************************************************)
\* the rows the call analysed: the window_size most recent ones
CallWindow ==
    Prefix(SortByReadAtDesc(driftCall[1].rows), driftCall[1].window_size)

\* every topic tag of the window, with repetitions
CallTags == CollectTopics(CallWindow, 1)

\* the count of the most frequent tag of the window
TopCount ==
    LET counts == {Occurrences(CallTags, t) : t \in Range(CallTags)}
    IN  CHOOSE c \in counts : \A d \in counts : d <= c

\* the history was read and holds at least half a window of entries
EnoughEntries ==
    /\ driftCall # None
    /\ driftCall[1].dbOk
    /\ 2 * Len(CallWindow) >= driftCall[1].window_size

\* the case in which a report is due: enough entries, at least one tag, and
\* the share of the most frequent tag reaches the threshold
DriftDue ==
    /\ EnoughEntries
    /\ CallTags # <<>>
    /\ TopCount * 100 >= driftCall[1].percent * Len(CallTags)

(***************************************************************************)
(* C2: detect_topic_drift returns a report only when the entries analysed  *)
(* are at least half of window_size (2 * entries >= window_size), odd      *)
(* window sizes included; with fewer entries it returns None.              *)
(***************************************************************************)
C2_ReportNeedsHalfWindow ==
    (driftCall # None /\ driftCall[1].dbOk) =>
        /\ driftResult.kind = "OkReport"
              => 2 * Len(CallWindow) >= driftCall[1].window_size
        /\ 2 * Len(CallWindow) < driftCall[1].window_size
              => driftResult.kind = "OkNone"

(***************************************************************************)
(* C3: detect_topic_drift never raises: it returns Ok(None) or Ok(report)  *)
(* for every read history, and the storage Err when reading the history   *)
(* fails.                                                                  *)
(***************************************************************************)
C3_NeverRaises ==
    driftCall # None =>
        /\ driftResult.kind \in {"OkNone", "OkReport", "Err"}
        /\ driftResult.kind = "Err" <=> ~driftCall[1].dbOk

(***************************************************************************)
(* C5: with enough entries and at least one tag, a report is returned      *)
(* exactly when (count of the most frequent tag) / (number of tags)        *)
(* >= threshold; its percentage is that share and its article_count the    *)
(* number of entries analysed; otherwise None is returned.                 *)
(***************************************************************************)
C5_ReportIffShareReachesThreshold ==
    (EnoughEntries /\ CallTags # <<>>) =>
        IF DriftDue
        THEN /\ driftResult.kind = "OkReport"
             /\ RatEq(driftResult.report.percentage, Rat(TopCount, Len(CallTags)))
             /\ driftResult.report.article_count = Len(CallWindow)
        ELSE driftResult.kind = "OkNone"

(***************************************************************************)
(* C6: the report of a drifting window lists as dominant_topics every      *)
(* topic whose count is at least 50% of the top count and no other topic,  *)
(* however many topics qualify.                                            *)
(***************************************************************************)
C6_DominantWithinHalfOfTop ==
    DriftDue =>
        /\ driftResult.kind = "OkReport"
        /\ Range(driftResult.report.dominant_topics) =
              {t \in Range(CallTags) : 2 * Occurrences(CallTags, t) >= TopCount}

(***************************************************************************)
(* C7: the report of a drifting window has at most 3 suggested_topics,     *)
(* without duplicates, none of them dominant, each an adjacency-table      *)
(* alternative of a dominant topic; when no dominant topic is in the table *)
(* the report is still returned, with no suggestion.                       *)
(***************************************************************************)
C7_SuggestionsFromTable ==
    DriftDue =>
        LET dominant == Range(driftResult.report.dominant_topics)
            suggested == driftResult.report.suggested_topics
        IN  /\ driftResult.kind = "OkReport"
            /\ Len(suggested) <= 3
            /\ \A i, j \in 1..Len(suggested) : suggested[i] = suggested[j] => i = j
            /\ \A i \in 1..Len(suggested) :
                  /\ suggested[i] \notin dominant
                  /\ \E t \in dominant \cap DOMAIN ALTERNATIVES :
                        suggested[i] \in Range(ALTERNATIVES[t])
            /\ dominant \cap DOMAIN ALTERNATIVES = {} => suggested = <<>>

(***************************************************************************)
(* C11: generate raises ValueError whenever the chain is empty, whatever   *)
(* the seed, max_words and random source, and before it consults the       *)
(* random source.                                                          *)
(***************************************************************************)
C11_EmptyChainRaisesFirst ==
    /\ [][(gPc = "enter" /\ built.chain = <<>>)
            => /\ gPc' = "raised"
               /\ gRng' = gRng
               /\ gOut'[Len(gOut')].kind = "ValueError"]_vars
    /\ [](built.chain = <<>> => gPc \in {"idle", "enter", "raised"})

\* a call with a supplied seed, a supplied random source and a positive
\* budget that raised
C11_Witness ==
    /\ gPc = "raised"
    /\ gArgs.seed # None
    /\ gArgs.rng # None
    /\ gArgs.max_words > 0
    /\ LastOut.kind = "ValueError"

(***************************************************************************)
(* C12: build_chain raises ValueError whenever n < 1, for every text,      *)
(* the empty text included, and returns no chain then.                     *)
(***************************************************************************)
C12_InvalidNRaises ==
    built.kind # "none" =>
        /\ ngram < 1 <=> built.kind = "ValueError"
        /\ built.kind = "ValueError" => built.chain = <<>>

\* build_chain raised on a text without tokens
C12_Witness ==
    /\ built.kind = "ValueError"
    /\ words = <<>>

(***************************************************************************)
(* C13: for n >= 1 build_chain returns the empty chain exactly when the    *)
(* text has n tokens or fewer, and does not raise; generate_tldr then      *)
(* returns the empty string, and otherwise what generate returns, so it    *)
(* never raises.                                                           *)
(***************************************************************************)
C13_ShortTextIsSentinel ==
    (call.fn = "generate_tldr" /\ call.n >= 1) =>
        LET b == build_chain(call.text, call.n)
            short == Len(tokenize(call.text)) <= call.n
        IN  /\ b.kind = "ok"
            /\ b.chain = <<>> <=> short
            /\ result.kind = "ok"
            /\ short => result.text = <<>>
            /\ ~short => /\ result.text # <<>>
                         /\ result \in generate(b.chain, None, call.max_words, None)

\* a text with tokens, but not more than n of them, gave the empty string
C13_Witness ==
    /\ call.fn = "generate_tldr"
    /\ call.n >= 1
    /\ tokenize(call.text) # <<>>
    /\ Len(tokenize(call.text)) <= call.n
    /\ result = [kind |-> "ok", text |-> <<>>]

(***************************************************************************)
(* C14: the states of the merged chain are the union of the states of the  *)
(* inputs, the successor list of a state is the concatenation, in input    *)
(* order, of its lists in the inputs, so every count is the sum of the     *)
(* counts in the inputs; no inputs give the empty chain.                   *)
(***************************************************************************)
RECURSIVE ConcatLists(_, _, _)
\* the lists of key in chains[c..], one after the other
ConcatLists(chains, key, c) ==
    IF c > Len(chains) THEN <<>>
    ELSE (IF KeyIn(chains[c], key) THEN ChainGet(chains[c], key) ELSE <<>>)
         \o ConcatLists(chains, key, c + 1)

RECURSIVE SumCounts(_, _, _, _)
SumCounts(chains, key, w, c) ==
    IF c > Len(chains) THEN 0
    ELSE (IF KeyIn(chains[c], key) THEN Occurrences(ChainGet(chains[c], key), w)
          ELSE 0)
         + SumCounts(chains, key, w, c + 1)

C14_MergeConcatenates ==
    call.fn = "merge_chains" =>
        LET chains == call.chains
            merged == result.chain
            keys == UNION {Range(ChainKeys(chains[c])) : c \in 1..Len(chains)}
        IN  /\ result.kind = "ok"
            /\ Range(ChainKeys(merged)) = keys
            /\ \A i, j \in 1..Len(merged) : merged[i].key = merged[j].key => i = j
            /\ \A k \in 1..Len(merged) :
                  /\ merged[k].words = ConcatLists(chains, merged[k].key, 1)
                  /\ \A w \in Range(merged[k].words) :
                        Occurrences(merged[k].words, w)
                            = SumCounts(chains, merged[k].key, w, 1)
            /\ chains = <<>> => merged = <<>>

\* two chains that share a state were merged
C14_Witness ==
    /\ call.fn = "merge_chains"
    /\ Len(call.chains) = 2
    /\ \E k \in 1..Len(result.chain) :
          /\ KeyIn(call.chains[1], result.chain[k].key)
          /\ KeyIn(call.chains[2], result.chain[k].key)
          /\ Len(result.chain[k].words) >= 2

(***************************************************************************)
(* C15: whatever the text and the word budget, the string smart_tldr       *)
(* returns has at most max_words whitespace-separated words.               *)
(***************************************************************************)
C15_WithinWordBudget ==
    call.fn = "smart_tldr" => Len(Split(result.text)) <= call.max_words

(***************************************************************************)
(* C16: smart_tldr returns "" for empty or whitespace-only text; for fewer *)
(* than 100 words the 2-sentence extractive summary; for 100 words or more *)
(* the bigram Markov text, and the extractive summary only when the Markov *)
(* generation yields nothing; it never raises.                             *)
(***************************************************************************)
\* what the claim says of texts of 100 words or more
MarkovOrFallback ==
    LET markov == generate_tldr(call.text, call.max_words, 2)
    IN  IF \A r \in markov : r.text = <<>>
        THEN result.text = extractive_summary(call.text, 2)
        ELSE result \in markov /\ result.text # <<>>

C16_SummaryOrMarkov ==
    call.fn = "smart_tldr" =>
        /\ result.kind = "ok"
        /\ Strip(call.text) = <<>> => result.text = <<>>
        /\ (Strip(call.text) # <<>> /\ Len(Split(call.text)) < 100) =>
              result.text = extractive_summary(call.text, 2)
        /\ Len(Split(call.text)) >= 100 => MarkovOrFallback

\* the same, with the summary of a short text cut to the word budget: its
\* first max_words words joined by single spaces and followed by "..."
C16_CutSummaryOrMarkov ==
    call.fn = "smart_tldr" =>
        /\ result.kind = "ok"
        /\ Strip(call.text) = <<>> => result.text = <<>>
        /\ (Strip(call.text) # <<>> /\ Len(Split(call.text)) < 100) =>
              LET summary == extractive_summary(call.text, 2)
                  ws == Split(summary)
              IN  IF Len(ws) <= call.max_words THEN result.text = summary
                  ELSE result.text =
                          JoinSpace(SubSeq(ws, 1, call.max_words)) \o <<".", ".", ".">>
        /\ Len(Split(call.text)) >= 100 => MarkovOrFallback

\* a short text whose summary was cut to a budget of one word or more
C16_Witness ==
    /\ call.fn = "smart_tldr"
    /\ Len(Split(call.text)) < 100
    /\ call.max_words >= 1
    /\ Len(Split(extractive_summary(call.text, 2))) > call.max_words
    /\ Len(Split(result.text)) = call.max_words
    /\ result.text # extractive_summary(call.text, 2)

(***************************************************************************)
(* C17: with more qualifying sentences than max_sentences the summary is   *)
(* exactly max_sentences of them, verbatim, joined by single spaces in     *)
(* document order, and no sentence left out scores strictly higher than a  *)
(* sentence taken.                                                         *)
(***************************************************************************)
C17_TopSentencesInOrder ==
    call.fn = "extractive_summary" =>
        LET sentences == split_sentences(call.text)
            scores == score_sentences(sentences)
            all == 1..Len(sentences)
        IN  (Strip(call.text) # <<>> /\ Len(sentences) > call.max_sentences) =>
                \E I \in SUBSET all :
                    /\ Cardinality(I) = call.max_sentences
                    /\ LET picked == Ascending(I, 1, Len(sentences))
                       IN  result.text =
                               JoinSpace([k \in 1..Len(picked) |-> sentences[picked[k]]])
                    /\ \A i \in I, j \in all \ I : ~RatLess(scores[i], scores[j])

\* a summary of two sentences that leaves out the first sentence of three
C17_Witness ==
    /\ call.fn = "extractive_summary"
    /\ call.max_sentences = 2
    /\ LET sentences == split_sentences(call.text)
       IN  /\ Len(sentences) = 3
           /\ result.text = JoinSpace(<<sentences[2], sentences[3]>>)

(***************************************************************************)
(* C18: with no more qualifying sentences than max_sentences the summary   *)
(* is text.strip(), the whole text; for empty or whitespace-only text it   *)
(* is ""; the function never raises.                                       *)
(***************************************************************************)
C18_ShortTextReturnedWhole ==
    call.fn = "extractive_summary" =>
        /\ result.kind = "ok"
        /\ Strip(call.text) = <<>> => result.text = <<>>
        /\ Len(split_sentences(call.text)) <= call.max_sentences =>
              result.text = Strip(call.text)

\* a padded text with a fragment and as many sentences as asked for
C18_Witness ==
    /\ call.fn = "extractive_summary"
    /\ Len(split_sentences(call.text)) = call.max_sentences
    /\ call.max_sentences >= 1
    /\ Len(SplitOnMarks(call.text)) > call.max_sentences
    /\ call.text # Strip(call.text)
    /\ result.text = Strip(call.text)

(***************************************************************************)
(* C19: for every text compute_signal_score returns Ok(v) with             *)
(* 0.0 <= v <= 1.0; it never returns Err and never raises.                 *)
(***************************************************************************)
C19_ScoreIsOkInUnitRange ==
    call.fn = "compute_signal_score" =>
        /\ result.kind = "Ok"
        /\ ~RatLess(result.value, RatZero)
        /\ ~RatLess(RatOne, result.value)

\* a text of ten words or more with content words, scored from its parts
C19_Witness ==
    /\ call.fn = "compute_signal_score"
    /\ Len(LetterRuns(Lower(call.text))) >= 10
    /\ \E k \in 1..Len(LetterRuns(Lower(call.text))) :
          LetterRuns(Lower(call.text))[k] \in LOW_SIGNAL_WORDS
    /\ result.kind = "Ok"
    /\ RatLess(RatZero, result.value)
    /\ RatLess(result.value, Rat(1, 2))

(***************************************************************************)
(* C20: the score is exactly 0.5 for every text with fewer than 10 word    *)
(* tokens, empty and whitespace-only text and texts of stop words only     *)
(* included, and exactly 0.2 for every text with 10 or more word tokens    *)
(* that are all stop words.                                                *)
(***************************************************************************)
C20_NeutralAndLowScores ==
    call.fn = "compute_signal_score" =>
        LET ws == LetterRuns(Lower(call.text))
        IN  /\ Len(ws) < 10 => result = Ok(Rat(1, 2))
            /\ (Len(ws) >= 10 /\ \A k \in 1..Len(ws) : ws[k] \in STOP_WORDS) =>
                  result = Ok(Rat(1, 5))

\* exactly ten words, all of them stop words, scored 0.2
C20_Witness ==
    /\ call.fn = "compute_signal_score"
    /\ Len(LetterRuns(Lower(call.text))) = 10
    /\ \A k \in 1..10 : LetterRuns(Lower(call.text))[k] \in STOP_WORDS
    /\ result = Ok(Rat(1, 5))

(***************************************************************************)
(* C21: extract_topics returns a sequence without duplicates of at most    *)
(* max_topics tags, each with a keyword match in the text, in the order of *)
(* non-increasing total match count, and no topic left out has a strictly  *)
(* higher count than one returned; blank text gives the empty sequence.    *)
(***************************************************************************)
\* the total match count of a topic in the text of the call
MatchCount(topic) ==
    LET k == CHOOSE k \in 1..Len(TOPIC_KEYWORDS) : TOPIC_KEYWORDS[k].topic = topic
    IN  SumKeywordCounts(TOPIC_KEYWORDS[k].keywords, Lower(call.text), 1)

AllTopics == {TOPIC_KEYWORDS[k].topic : k \in 1..Len(TOPIC_KEYWORDS)}

C21_TopTopicsRanked ==
    call.fn = "extract_topics" =>
        LET topics == result.topics
        IN  /\ \A i, j \in 1..Len(topics) : topics[i] = topics[j] => i = j
            /\ Len(topics) <= call.max_topics
            /\ \A i \in 1..Len(topics) :
                  topics[i] \in AllTopics /\ MatchCount(topics[i]) >= 1
            /\ \A i, j \in 1..Len(topics) :
                  i < j => MatchCount(topics[i]) >= MatchCount(topics[j])
            /\ \A t \in AllTopics \ Range(topics), i \in 1..Len(topics) :
                  MatchCount(t) <= MatchCount(topics[i])
            /\ Strip(call.text) = <<>> => topics = <<>>

\* two topics matched, one asked for: the one returned is not the first of
\* the table but the one matched more often
C21_Witness ==
    /\ call.fn = "extract_topics"
    /\ call.max_topics = 1
    /\ MatchCount("crypto") = 1
    /\ Len(result.topics) = 1
    /\ result.topics[1] # "crypto"
    /\ MatchCount(result.topics[1]) = 2

(***************************************************************************)
(* C22: topic_overlap is the Jaccard ratio of the two tag sets when both   *)
(* tuples are non-empty, 1.0 when both are empty, 0.0 when exactly one is; *)
(* it is symmetric, and it is 1.0 exactly when the tag sets are equal.     *)
(***************************************************************************)
C22_JaccardOverlap ==
    call.fn = "topic_overlap" =>
        LET a == Range(call.topics1)
            b == Range(call.topics2)
            v == result.value
        IN  /\ (a # {} /\ b # {}) =>
                  v.num * Cardinality(a \cup b) = Cardinality(a \cap b) * v.den
            /\ (a = {} /\ b = {}) => RatEq(v, Rat(1, 1))
            /\ ((a = {}) # (b = {})) => RatEq(v, Rat(0, 1))
            /\ RatEq(v, topic_overlap(call.topics2, call.topics1))
            /\ RatEq(v, Rat(1, 1)) <=> a = b

\* two tuples that differ, with duplicates, over the same tag set
C22_Witness ==
    /\ call.fn = "topic_overlap"
    /\ call.topics1 # call.topics2
    /\ Len(call.topics1) = 2
    /\ Range(call.topics1) = Range(call.topics2)
    /\ RatEq(result.value, Rat(1, 1))

(***************************************************************************)
(* C23: for a non-empty token list detokenize returns a text that starts   *)
(* with the capitalized first token, has the other tokens in their order,  *)
(* with no space before a closing punctuation token and none after an      *)
(* opening one, and ends in ".", "!" or "?": "..." is appended exactly     *)
(* when the joined text does not end in one of them.  The empty list gives *)
(* the empty string.                                                       *)
(***************************************************************************)
ClosingTokens == {<<".">>, <<",">>, <<"!">>, <<"?">>, <<";">>, <<":">>, <<")">>, <<"\"">>}
OpeningTokens == {<<"(">>, <<"\"">>}

\* 1 when token i of the call is to be set off by a space, else 0
Gap(i) ==
    IF i = 1 \/ call.tokens[i] \in ClosingTokens
             \/ call.tokens[i - 1] \in OpeningTokens
    THEN 0 ELSE 1

RECURSIVE TokenStart(_)
\* the index in the joined text at which token i of the call starts
TokenStart(i) ==
    IF i = 1 THEN 1
    ELSE TokenStart(i - 1) + Len(call.tokens[i - 1]) + Gap(i)

C23_ReadableText ==
    call.fn = "detokenize" =>
        LET tokens == call.tokens
            text == result.text
            n == Len(tokens)
            joined == TokenStart(n) + Len(tokens[n]) - 1
        IN  IF tokens = <<>> THEN text = <<>>
            ELSE /\ Len(text) >= joined
                 /\ SubSeq(text, 1, Len(tokens[1])) = Capitalize(tokens[1])
                 /\ \A i \in 2..n :
                       /\ SubSeq(text, TokenStart(i), TokenStart(i) + Len(tokens[i]) - 1)
                             = tokens[i]
                       /\ Gap(i) = 1 => text[TokenStart(i) - 1] = " "
                 /\ text[Len(text)] \in {".", "!", "?"}
                 /\ IF text[joined] \in {".", "!", "?"}
                    THEN Len(text) = joined
                    ELSE /\ Len(text) = joined + 3
                         /\ SubSeq(text, joined + 1, joined + 3) = <<".", ".", ".">>

\* a word after an opening token and before a closing one, no full stop
C23_Witness ==
    /\ call.fn = "detokenize"
    /\ Len(call.tokens) = 3
    /\ call.tokens[1] \in OpeningTokens
    /\ call.tokens[2] \notin ClosingTokens \cup OpeningTokens
    /\ call.tokens[3] = <<")">>
    /\ Len(result.text) = Len(call.tokens[2]) + 5

(***************************************************************************)
(* C29: in every run of generate each token appended after the seed is in  *)
(* the chain's successor list of the n tokens right before it, so every    *)
(* window of n + 1 output tokens is a transition of the chain; the loop    *)
(* makes at most max_words - n steps: every step that does not leave the   *)
(* loop uses up one of them, so the run ends on chains with cycles too.    *)
(***************************************************************************)
\* the tokens of the run so far follow the chain
FollowsChain ==
    \A k \in (gN + 1)..Len(gWords) :
        LET key == SubSeq(gWords, k - gN, k - 1)
        IN  /\ KeyIn(built.chain, key)
            /\ gWords[k] \in Range(ChainGet(built.chain, key))

C29_WalksTheChain ==
    /\ [](gPc \in {"loop", "return", "done"} =>
            /\ FollowsChain
            /\ gLeft >= 0
            /\ (Len(gWords) - gN) + gLeft = LoopCount(gArgs.max_words, gN))
    /\ [][gPc = "loop" =>
            \/ gPc' = "return" /\ gWords' = gWords
            \/ gPc' = "loop" /\ gLeft' = gLeft - 1 /\ Len(gWords') = Len(gWords) + 1]_vars

\* a run on a chain with a cycle that the budget stopped, not a dead end
C29_Witness ==
    /\ gPc = "done"
    /\ gN >= 1
    /\ Len(gWords) = gArgs.max_words
    /\ Len(gWords) >= gN + 2
    /\ KeyIn(built.chain, LastN(gWords, gN))
    /\ \E i, j \in 1..Len(gWords) : i < j /\ gWords[i] = gWords[j]

(***************************************************************************)
(* C24: whatever the order of the timestamps of the reads recorded,        *)
(* get_read_history(limit) returns min(limit, rows recorded) rows, most    *)
(* recent first, and no row left out is more recent than a row returned;   *)
(* every record_read that the database accepts adds exactly one row after  *)
(* the rows there are, also for an article that was read before.           *)
(***************************************************************************)
\* out holds the rows of the table with the greatest read_at, in descending order
GreatestFirst(out, rows, limit) ==
    /\ Len(out) = IF limit < Len(rows) THEN limit ELSE Len(rows)
    /\ \A i, j \in 1..Len(out) : i < j => out[i].read_at >= out[j].read_at
    /\ \A r \in Range(out) : Occurrences(out, r) <= Occurrences(rows, r)
    /\ \A t \in Range(out) :
          Cardinality({i \in 1..Len(rows) : rows[i].read_at > t.read_at})
              = Cardinality({i \in 1..Len(out) : out[i].read_at > t.read_at})
    /\ (out = <<>>) => (limit = 0 \/ rows = <<>>)

C24_HistoryMostRecentFirst ==
    /\ [](call.fn = "get_read_history" =>
            IF call.dbOk
            THEN /\ result.kind = "Ok"
                 /\ GreatestFirst(result.value, call.rows, call.limit)
            ELSE result.kind = "Err")
    /\ [][read_history' # read_history =>
            /\ dbOk
            /\ Len(read_history') = Len(read_history) + 1
            /\ SubSeq(read_history', 1, Len(read_history)) = read_history]_vars
    /\ [][(dbOk /\ dbOk' /\ callVars' = callVars) => read_history' # read_history]_driftVars

\* reads of one article recorded out of order, two of them at the same time, and
\* a call of get_read_history that cut the table to its two latest rows
C24_Witness ==
    /\ call.fn = "get_read_history"
    /\ call.dbOk
    /\ call.limit = 2
    /\ Len(call.rows) = 3
    /\ call.rows[1].read_at < call.rows[2].read_at
    /\ call.rows[3] = call.rows[1]
    /\ result.value = <<call.rows[2], call.rows[1]>>

(***************************************************************************)
(* C25: the articles table never holds two rows with one id; a store that  *)
(* returns Ok leaves get_article(id) returning exactly the values stored,  *)
(* adds a row only when the id was new and touches no other row; a store   *)
(* that returns Err, and every other operation, leaves what get_article    *)
(* returns for every id as it was.                                         *)
(***************************************************************************)
\* the step is a call of store_article
StoreStep ==
    /\ call'.fn = "store_article"
    /\ dbOk' = dbOk
    /\ <<call, result, articles>>' # <<call, result, articles>>

\* the row stored under id, None when there is none
RowOf(table, id) == TableGet(table, id).row

C25_OneRowPerId ==
    /\ [](\A id \in ArticleIds : Cardinality(RowsWithId(articles, id)) <= 1)
    /\ [][\A id \in ArticleIds :
            IF StoreStep /\ result'.kind = "Ok" /\ call'.article_data.id = id
            THEN /\ get_article(articles', TRUE, id) = Ok(Some(call'.article_data))
                 /\ Len(articles') =
                        Len(articles) + (IF RowsWithId(articles, id) = {} THEN 1 ELSE 0)
            ELSE RowOf(articles', id) = RowOf(articles, id)]_vars

\* a store under an id already in the table that put new values in its row
C25_Witness ==
    /\ call.fn = "store_article"
    /\ result.kind = "Ok"
    /\ RowsWithId(call.table, call.article_data.id) # {}
    /\ Len(call.table) = 2
    /\ Len(articles) = 2
    /\ articles # call.table
    /\ get_article(articles, TRUE, call.article_data.id) = Ok(Some(call.article_data))

(***************************************************************************)
(* C26: get_article for an id that no row of the articles table has        *)
(* returns Ok(None) while the database answers, and leaves the table as    *)
(* it was.                                                                 *)
(***************************************************************************)
C26_AbsentIdIsOkNone ==
    /\ [](call.fn = "get_article" /\ call.dbOk
             /\ RowsWithId(call.table, call.article_id) = {}
          => result = Ok(None))
    /\ [][call'.fn = "get_article" /\ call' # call => articles' = articles]_vars

(***************************************************************************)
(* C28: get_articles_for_display(db, limit) returns min(limit, number of   *)
(* rows with analyzed_at set) articles, all of them analysed, most         *)
(* recently fetched first, and no analysed row left out was fetched later  *)
(* than one returned, whatever rows without analyzed_at the table holds.   *)
(***************************************************************************)
\* the rows of the table that have analyzed_at set
Analysed(table) == SelectSeq(table, LAMBDA row : row.analyzed_at # None)

C28_DisplaysAnalysedArticles ==
    (call.fn = "get_articles_for_display" /\ call.dbOk) =>
        LET rows == Analysed(call.table)
            out == result.value
        IN  /\ Len(out) = IF call.limit < Len(rows) THEN call.limit ELSE Len(rows)
            /\ \A i \in 1..Len(out) :
                  \E k \in 1..Len(rows) : out[i] = db_dict_to_article(rows[k])
            /\ \A i, j \in 1..Len(out) :
                  i < j => out[i].raw.fetched_at >= out[j].raw.fetched_at
            /\ \A i \in 1..Len(out), k \in 1..Len(rows) :
                  rows[k].fetched_at > out[i].raw.fetched_at
                      => \E j \in 1..Len(out) : out[j] = db_dict_to_article(rows[k])

(***************************************************************************)
(* C27: load_sources never raises; called while the sources file does not  *)
(* exist it leaves the file holding the three default sources and returns  *)
(* Ok with those sources, or returns Err when the file system refuses.     *)
(***************************************************************************)
C27_CreatesDefaultsAndLoads ==
    call.fn = "load_sources" =>
        /\ result.kind \in {"Ok", "Err"}
        /\ call.file = None =>
              IF call.fsOk
              THEN /\ call.after = Some(DefaultDocument)
                   /\ result = Ok(DEFAULT_SOURCES)
              ELSE result.kind = "Err"

(***************************************************************************)
(* C30: the ids of the list of sources stay unique under add_source and    *)
(* remove_source; add_source returns Err when the id derived from the name *)
(* (lower case, spaces to hyphens, first 20 characters) is in the list,    *)
(* and else appends a source with that id; remove_source returns Err when  *)
(* no source has the id, and else drops it; no call changes the list it    *)
(* was given.                                                              *)
(***************************************************************************)
SourceIds(list) == {list[i].id : i \in 1..Len(list)}

UniqueIds(list) == \A i, j \in 1..Len(list) : list[i].id = list[j].id => i = j

C30_SourceIdsStayUnique ==
    /\ UniqueIds(source_list)
    /\ call.fn \in {"add_source", "remove_source"} =>
          /\ call.after = call.sources
          /\ source_list = IF result.kind = "Ok" THEN result.value ELSE call.sources
    /\ call.fn = "add_source" =>
          LET source_id == SourceIdOf(call.name)
          IN  /\ Len(source_id) <= 20
              /\ \A i \in 1..Len(source_id) :
                    source_id[i] = IF call.name[i] = " " THEN "-"
                                   ELSE LowerChar(call.name[i])
              /\ source_id \in SourceIds(call.sources) => result.kind = "Err"
              /\ result.kind = "Ok" =>
                    /\ Len(result.value) = Len(call.sources) + 1
                    /\ SubSeq(result.value, 1, Len(call.sources)) = call.sources
                    /\ result.value[Len(result.value)].id = source_id
                    /\ result.value[Len(result.value)].name = call.name
    /\ call.fn = "remove_source" =>
          IF call.source_id \in SourceIds(call.sources)
          THEN /\ result.kind = "Ok"
               /\ result.value = SelectSeq(call.sources, LAMBDA s : s.id # call.source_id)
               /\ Len(result.value) = Len(call.sources) - 1
          ELSE result.kind = "Err"

\* a name of more than 20 characters refused with valid fields: its id is the
\* id of a source added under another name, and that source was removed before
C30_Witness ==
    /\ call.fn = "add_source"
    /\ Len(call.name) > 20
    /\ IsHttpUrl(call.url)
    /\ call.source_type = "rss"
    /\ result.kind = "Err"
    /\ \E i \in 1..Len(call.sources) :
          /\ call.sources[i].id = SourceIdOf(call.name)
          /\ call.sources[i].name # call.name
    /\ Len(call.sources) = 3
    /\ SourceIds(call.sources) # SourceIds(DEFAULT_SOURCES)

====
